---- MODULE Spec2Model ----
\* Verification model of the BusTub storage kernel of luluwalulu/CMU15-445:
\*   part 1  disk extendible hash table (header -> directory -> bucket)
\*   part 2  buffer pool manager with its LRU-K replacer
EXTENDS Integers, Sequences, FiniteSets, TLC

\* ------------------------------------------------------------------ bounds
HashBits == 3      \* width of the hash kept by the model (uint32_t in the code)
MaxValue == 2      \* values are 1..MaxValue
MaxAvail == 2      \* most pages the pool supplies to one Insert call
MaxCalls == 4      \* Insert and Remove calls in one run of the table
CapKeys == 9       \* keys 0..CapKeys-1 and as many Insert calls in the capacity scenario

PoolSize == 2      \* pool_size_: frames of the buffer pool
ReplacerK == 2     \* k_ of the LRU-K replacer
MaxPages == 3      \* page ids AllocatePage may hand out
MaxPin == 2        \* pins held on one page at a time
MaxTime == 4       \* RecordAccess calls in one run of the pool
MaxData == 1       \* page contents are 0 (zeroed memory) .. MaxData
MaxGuards == 3     \* holders: Page pointers and guards a run creates
MaxWrap == 2       \* how far below zero curr_size_ may have wrapped when NewPage is called
MaxThreads == 2    \* threads that call the table or the pool at the same time
ReplacerSize == 2  \* replacer_size_ of a replacer that is used on its own
LruTime == 5       \* RecordAccess calls in one run of such a replacer
MaxChar == 2       \* the characters of trie keys are 1..MaxChar
MaxKeyLen == 2     \* longest key of the trie

INVALID_PAGE_ID == -1

Values == 1..MaxValue

RECURSIVE Pow2(_)
Pow2(n) == IF n <= 0 THEN 1 ELSE 2 * Pow2(n - 1)

\* a & b on naturals
RECURSIVE BitAnd(_, _)
BitAnd(a, b) ==
  IF a = 0 \/ b = 0 THEN 0
  ELSE (IF a % 2 = 1 /\ b % 2 = 1 THEN 1 ELSE 0) + 2 * BitAnd(a \div 2, b \div 2)

\* The tables the model is run with: the constructor parameters
\* (header_max_depth, directory_max_depth, bucket_max_size) and the keys the
\* client uses on that table.
Configs ==
  { [hmd |-> 0, dmd |-> 2, bmax |-> 2, keys |-> {0, 2, 4, 8}, calls |-> MaxCalls],
    [hmd |-> 0, dmd |-> 2, bmax |-> 1, keys |-> {0, 1, 2, 3}, calls |-> MaxCalls],
    [hmd |-> 0, dmd |-> 2, bmax |-> 3, keys |-> {1, 3, 5, 7}, calls |-> MaxCalls],
    [hmd |-> 1, dmd |-> 1, bmax |-> 2, keys |-> {0, 2, 4, 5}, calls |-> MaxCalls] }

\* InsertTest1's table: header depth 0, directory max depth 2, bucket size 2
CapConfig ==
  [hmd |-> 0, dmd |-> 2, bmax |-> 2, keys |-> 0..(CapKeys - 1), calls |-> CapKeys]

Keys == (UNION {c.keys : c \in Configs}) \cup CapConfig.keys

\* capacity of the directory page's arrays in the model
HTABLE_DIRECTORY_ARRAY_SIZE == 4

VARIABLES
  cfg,            \* constructor parameters of the table and the client's keys
  compaction,     \* how the bucket page closes the hole left by Remove
  header,         \* header page: directory index -> directory page id
  dirs,           \* directory pages by page id
  bkts,           \* bucket pages by page id
  next_page_id,   \* BufferPoolManager::next_page_id_ as seen by the table
  expected,       \* ghost: key -> value of the last successful Insert, or None
  last,           \* ghost: the last call, what it returned and on which path
  status,         \* "ok", or how a call that ran into undefined behaviour ended
  calls           \* ghost: number of Insert and Remove calls made

htVars == <<cfg, compaction, header, dirs, bkts, next_page_id, expected, last, status, calls>>

VARIABLES
  pages_,             \* frame -> [page_id, pin_count, is_dirty, data]
  free_list_,         \* frames that hold no page, in order
  page_table_,        \* page id -> frame, for the resident pages
  next_page_id_,      \* the next page id AllocatePage returns
  node_store_,        \* LRUKReplacer: frame -> [history, is_evictable]
  curr_size_,         \* LRUKReplacer: count of evictable frames; a size_t, kept
                      \* as the integer it is congruent to modulo 2^64
  current_timestamp_, \* LRUKReplacer: logical clock
  disk,               \* page id -> contents last written to disk
  bpm_status,         \* "ok" or "crash"
  bpm_last,           \* ghost: the last pool call, what it returned and the
                      \* page ids it wrote to disk
  committed           \* ghost: page id -> the contents the page had when it was
                      \* last unpinned with is_dirty = true and that no holder of
                      \* a pin has overwritten since, or NoData

bpVars == <<pages_, free_list_, page_table_, next_page_id_, node_store_, curr_size_,
            current_timestamp_, disk, bpm_status, bpm_last, committed>>

VARIABLES
  guards,   \* holder -> [st, kind, page_, is_dirty_]: a caller's Page pointer and
            \* the page guard built around it
  latch,    \* frame -> [w, r]: Page::rwlatch_, held by a writer or by r readers
  g_last    \* ghost: the last guard call and the holder that made it

gdVars == <<guards, latch, g_last>>

VARIABLES
  pc,       \* thread -> where the thread is in the call it is making, with the
            \* call's arguments and local variables
  held,     \* the latches threads hold on pages of the table: <<thread,
            \* page id>> for a write latch, <<thread, page id, "r">> for a
            \* read latch
  latch_    \* BufferPoolManager::latch_: the thread that holds it, or 0

VARIABLES
  root_,         \* TrieStore::root_: the trie that the store holds
  root_partial,  \* an assignment to root_ has begun and has not ended
  root_lock_,    \* TrieStore::root_lock_: the thread that holds it, or 0
  write_lock_    \* TrieStore::write_lock_: the thread that holds it, or 0

tsVars == <<root_, root_partial, root_lock_, write_lock_>>

thVars == <<pc, held, latch_, tsVars>>

vars == <<htVars, bpVars, gdVars, thVars>>

\* ------------------------------------------------- part 1: the hash table
\* uint32_t Hash(key): the model keeps the low HashBits bits of the key's hash.
Hash(key) == key % Pow2(HashBits)

\* ---- header page
HeaderHashToDirectoryIndex(hash) ==
  IF cfg.hmd = 0 THEN 0 ELSE hash \div Pow2(HashBits - cfg.hmd)

HeaderHashToPageId(hash) == header[HeaderHashToDirectoryIndex(hash)]

\* ---- directory page: [gd, ld, ids], arrays indexed 0..HTABLE_DIRECTORY_ARRAY_SIZE-1
DirSlots == 0..(HTABLE_DIRECTORY_ARRAY_SIZE - 1)

DirInit ==
  [gd |-> 0, ld |-> [i \in DirSlots |-> 0], ids |-> [i \in DirSlots |-> INVALID_PAGE_ID]]

Size(D) == Pow2(D.gd)

HashToBucketIndex(D, hash) == BitAnd(hash, Pow2(D.gd) - 1)

GetBucketPageId(D, bucket_idx) == D.ids[bucket_idx]

HashToPageId(D, hash) == D.ids[HashToBucketIndex(D, hash)]

GetLocalDepth(D, bucket_idx) == D.ld[bucket_idx]

GetGlobalDepth(D) == D.gd

\* IncrGlobalDepth without the copy of the lower half into the new upper half
IncrGlobalDepth_NoMirror(D) == [D EXCEPT !.gd = D.gd + 1]

\* IncrGlobalDepth that copies the page ids and not the local depths
IncrGlobalDepth_IdsOnly(D) ==
  LET old_size == Size(D)
      new_size == 2 * old_size
  IN [gd |-> D.gd + 1,
      ld |-> D.ld,
      ids |-> [i \in DirSlots |->
                IF i >= old_size /\ i < new_size THEN D.ids[i - old_size] ELSE D.ids[i]]]

IncrGlobalDepth(D) ==
  LET old_size == Size(D)
      new_size == 2 * old_size
  IN [gd |-> D.gd + 1,
      ld |-> [i \in DirSlots |->
                IF i >= old_size /\ i < new_size THEN D.ld[i - old_size] ELSE D.ld[i]],
      ids |-> [i \in DirSlots |->
                IF i >= old_size /\ i < new_size THEN D.ids[i - old_size] ELSE D.ids[i]]]

DecrGlobalDepth(D) == [D EXCEPT !.gd = D.gd - 1]

CanShrink(D) == \A i \in 0..(Size(D) - 1) : D.ld[i] # D.gd

\* a ^ b on naturals
RECURSIVE BitXor(_, _)
BitXor(a, b) ==
  IF a = 0 THEN b
  ELSE IF b = 0 THEN a
  ELSE (IF a % 2 = b % 2 THEN 0 ELSE 1) + 2 * BitXor(a \div 2, b \div 2)

\* GetSplitImageIndex with | in place of ^
GetSplitImageIndex_Or(D, bucket_idx) ==
  LET local_depth == D.ld[bucket_idx]
      bit == Pow2(local_depth - 1)
  IN IF BitAnd(bit, bucket_idx) = 0 THEN bit + bucket_idx ELSE bucket_idx

\* (1 << (local_depth - 1)) ^ bucket_idx, for local_depth in 1..31; with
\* local_depth 0 the shift count is -1 and the behaviour is undefined
GetSplitImageIndex(D, bucket_idx) ==
  LET local_depth == D.ld[bucket_idx]
  IN BitXor(Pow2(local_depth - 1), bucket_idx)

\* ---- bucket page: [size, arr], arr[1..bmax] of [k, v]; slots past size keep
\* whatever was written there last
BucketInit == [size |-> 0, arr |-> [i \in 1..cfg.bmax |-> [k |-> 0, v |-> 0]]]

IsFull(B) == B.size = cfg.bmax

IsEmpty(B) == B.size = 0

KeyAt(B, i) == B.arr[i + 1].k

ValueAt(B, i) == B.arr[i + 1].v

BucketHas(B, key) == \E i \in 1..B.size : B.arr[i].k = key

BucketPos(B, key) == CHOOSE i \in 1..B.size : B.arr[i].k = key

\* Lookup(key, value, cmp): the values found, as the result vector
BucketLookup(B, key) ==
  IF BucketHas(B, key) THEN <<B.arr[BucketPos(B, key)].v>> ELSE <<>>

\* Insert(key, value, cmp) -> bool: rejects a full bucket and a key already there
BucketInsertOk(B, key) == ~IsFull(B) /\ ~BucketHas(B, key)

BucketInsert(B, key, value) ==
  IF BucketInsertOk(B, key)
  THEN [size |-> B.size + 1, arr |-> [B.arr EXCEPT ![B.size + 1] = [k |-> key, v |-> value]]]
  ELSE B

\* Remove(key, cmp) -> bool: closes the hole by shifting the tail left
\* ("shift") or by moving the last entry into it ("swap")
BucketRemove(B, key) ==
  IF ~BucketHas(B, key) THEN B
  ELSE LET p == BucketPos(B, key)
       IN [size |-> B.size - 1,
           arr |-> [i \in 1..cfg.bmax |->
                     IF compaction = "shift"
                     THEN (IF i >= p /\ i < B.size THEN B.arr[i + 1] ELSE B.arr[i])
                     ELSE (IF i = p THEN B.arr[B.size] ELSE B.arr[i])]]

\* ---- the table: header page, directory pages, bucket pages, next page id
Tbl == [header |-> header, dirs |-> dirs, bkts |-> bkts, next |-> next_page_id]

Put(f, k, v) == [x \in (DOMAIN f) \cup {k} |-> IF x = k THEN v ELSE f[x]]

Drop(f, k) == [x \in (DOMAIN f) \ {k} |-> f[x]]

\* GetValue(key, result): the result vector; the call returns true iff it is not empty
GetValueIn(t, key) ==
  LET hash == Hash(key)
      direc_page_id == t.header[HeaderHashToDirectoryIndex(hash)]
  IN IF direc_page_id = INVALID_PAGE_ID THEN <<>>
     ELSE LET bucket_page_id == HashToPageId(t.dirs[direc_page_id], hash)
          IN IF bucket_page_id \notin DOMAIN t.bkts THEN <<>>
             ELSE BucketLookup(t.bkts[bucket_page_id], key)

GetValueOf(key) == GetValueIn(Tbl, key)

\* UpdateDirectoryMapping without the else branch: the slots that stay with
\* the old bucket keep their local depth
UpdateDirectoryMapping_MovedOnly(D, new_bucket_idx, new_bucket_page_id, new_local_depth, local_depth_mask) ==
  LET old_local_depth == GetLocalDepth(D, new_bucket_idx)
      old_local_depth_mask == Pow2(old_local_depth) - 1
      new_tidx == BitAnd(new_bucket_idx, local_depth_mask)
      old_tidx == BitAnd(new_bucket_idx, old_local_depth_mask)
      Same(idx) == old_tidx = BitAnd(idx, Pow2(GetLocalDepth(D, idx)) - 1)
      Moves(idx) == Same(idx) /\ new_tidx = BitAnd(idx, local_depth_mask)
  IN [D EXCEPT
        !.ld = [idx \in DirSlots |->
                 IF idx < Size(D) /\ Moves(idx) THEN new_local_depth ELSE D.ld[idx]],
        !.ids = [idx \in DirSlots |->
                 IF idx < Size(D) /\ Moves(idx) THEN new_bucket_page_id ELSE D.ids[idx]]]

\* UpdateDirectoryMapping that gives the moved slots the new page and leaves
\* them their old local depth
UpdateDirectoryMapping_DepthKept(D, new_bucket_idx, new_bucket_page_id, new_local_depth, local_depth_mask) ==
  LET old_local_depth == GetLocalDepth(D, new_bucket_idx)
      old_local_depth_mask == Pow2(old_local_depth) - 1
      change == new_local_depth - old_local_depth
      new_tidx == BitAnd(new_bucket_idx, local_depth_mask)
      old_tidx == BitAnd(new_bucket_idx, old_local_depth_mask)
      Same(idx) == old_tidx = BitAnd(idx, Pow2(GetLocalDepth(D, idx)) - 1)
      Moves(idx) == Same(idx) /\ new_tidx = BitAnd(idx, local_depth_mask)
  IN [D EXCEPT
        !.ld = [idx \in DirSlots |->
                 IF idx >= Size(D) THEN D.ld[idx]
                 ELSE IF Moves(idx) THEN D.ld[idx]
                 ELSE IF Same(idx) THEN (D.ld[idx] + change) % 256
                 ELSE D.ld[idx]],
        !.ids = [idx \in DirSlots |->
                 IF idx < Size(D) /\ Moves(idx) THEN new_bucket_page_id ELSE D.ids[idx]]]

UpdateDirectoryMapping(D, new_bucket_idx, new_bucket_page_id, new_local_depth, local_depth_mask) ==
  LET old_local_depth == GetLocalDepth(D, new_bucket_idx)
      old_local_depth_mask == Pow2(old_local_depth) - 1
      change == new_local_depth - old_local_depth
      new_tidx == BitAnd(new_bucket_idx, local_depth_mask)
      old_tidx == BitAnd(new_bucket_idx, old_local_depth_mask)
      Same(idx) == old_tidx = BitAnd(idx, Pow2(GetLocalDepth(D, idx)) - 1)
      Moves(idx) == Same(idx) /\ new_tidx = BitAnd(idx, local_depth_mask)
  IN [D EXCEPT
        !.ld = [idx \in DirSlots |->
                 IF idx >= Size(D) THEN D.ld[idx]
                 ELSE IF Moves(idx) THEN new_local_depth
                 ELSE IF Same(idx) THEN (D.ld[idx] + change) % 256
                 ELSE D.ld[idx]],
        !.ids = [idx \in DirSlots |->
                 IF idx < Size(D) /\ Moves(idx) THEN new_bucket_page_id ELSE D.ids[idx]]]

\* the split loop's inner for loop: entries of the full bucket whose hash falls
\* on the new bucket's side are removed from it and inserted into the new one
RECURSIVE Partition(_, _, _, _, _, _)
Partition(old, new, i, size, new_mask, new_tidx) ==
  IF i >= size THEN [old |-> old, new |-> new]
  ELSE LET key == KeyAt(old, i)
           value == ValueAt(old, i)
       IN IF BitAnd(Hash(key), new_mask) = new_tidx
          THEN Partition(BucketRemove(old, key), BucketInsert(new, key, value),
                         i + 1, size, new_mask, new_tidx)
          ELSE Partition(old, new, i + 1, size, new_mask, new_tidx)

\* the capacity test with the directory one level short of directory_max_depth_
DirectoryAtMaxDepth_OneEarly(D) == GetGlobalDepth(D) + 1 >= cfg.dmd

\* if (old_glodep == directory_max_depth_) return false;
DirectoryAtMaxDepth(D) == GetGlobalDepth(D) = cfg.dmd

\* while (bucket_page->IsFull()) { ... } of Insert; avail is the number of pages
\* the pool can still supply to this call
RECURSIVE SplitLoop(_, _, _, _, _, _, _)
SplitLoop(t, d, b, bucket_idx, hash, avail, splits) ==
  IF ~IsFull(t.bkts[b])
  THEN [t |-> t, b |-> b, ret |-> TRUE, splits |-> splits, why |-> "room"]
  ELSE
    LET D0 == t.dirs[d]
        old_lodep == GetLocalDepth(D0, bucket_idx)
        old_glodep == GetGlobalDepth(D0)
    IN IF old_lodep = old_glodep /\ DirectoryAtMaxDepth(D0)
       THEN [t |-> t, b |-> b, ret |-> FALSE, splits |-> splits, why |-> "maxdepth"]
       ELSE
         LET D1 == IF old_lodep = old_glodep THEN IncrGlobalDepth(D0) ELSE D0
             idx1 == HashToBucketIndex(D1, hash)
             t1 == [t EXCEPT !.dirs = Put(t.dirs, d, D1)]
         IN IF avail = 0
            THEN [t |-> t1, b |-> b, ret |-> FALSE, splits |-> splits, why |-> "nopage"]
            ELSE
              LET new_bucket_page_id == t.next
                  local_depth == GetLocalDepth(D1, idx1)
                  new_mask == Pow2(local_depth + 1) - 1
                  new_tidx == BitAnd(idx1, new_mask)
                  P == Partition(t.bkts[b], BucketInit, 0, t.bkts[b].size, new_mask, new_tidx)
                  D2 == UpdateDirectoryMapping(D1, idx1, new_bucket_page_id,
                                               local_depth + 1, new_mask)
                  t2 == [t EXCEPT !.dirs = Put(t.dirs, d, D2),
                                  !.bkts = Put(Put(t.bkts, b, P.old), new_bucket_page_id, P.new),
                                  !.next = t.next + 1]
              IN SplitLoop(t2, d, new_bucket_page_id, idx1, hash, avail - 1, splits + 1)

InsertToNewBucket(t, d, bucket_idx, key, value, avail) ==
  IF avail = 0
  THEN [t |-> t, b |-> INVALID_PAGE_ID, ret |-> FALSE, splits |-> 0, why |-> "nopage"]
  ELSE LET bucket_page_id == t.next
           D == [t.dirs[d] EXCEPT !.ids[bucket_idx] = bucket_page_id]
       IN [t |-> [t EXCEPT !.dirs = Put(t.dirs, d, D),
                           !.bkts = Put(t.bkts, bucket_page_id,
                                        BucketInsert(BucketInit, key, value)),
                           !.next = t.next + 1],
           b |-> bucket_page_id,
           ret |-> BucketInsertOk(BucketInit, key),
           splits |-> 0, why |-> "newbucket"]

InsertToNewDirectory(t, directory_idx, hash, key, value, avail) ==
  IF avail = 0
  THEN [t |-> t, b |-> INVALID_PAGE_ID, ret |-> FALSE, splits |-> 0, why |-> "nopage"]
  ELSE LET direc_page_id == t.next
           t1 == [t EXCEPT !.header[directory_idx] = direc_page_id,
                           !.dirs = Put(t.dirs, direc_page_id, DirInit),
                           !.next = t.next + 1]
           bucket_idx == HashToBucketIndex(DirInit, hash)
           r == InsertToNewBucket(t1, direc_page_id, bucket_idx, key, value, avail - 1)
       IN [r EXCEPT !.why = IF r.ret THEN "newdirectory" ELSE "nopage-after-directory"]

\* the end of Insert: bucket_page->Insert(key, value, cmp_); return true;
\* r is what the split loop left
InsertAfterSplit(r, key, value) ==
  IF ~r.ret THEN r
  ELSE [r EXCEPT !.t.bkts = Put(r.t.bkts, r.b, BucketInsert(r.t.bkts[r.b], key, value)),
                 !.why = IF BucketInsertOk(r.t.bkts[r.b], key)
                         THEN "inserted" ELSE "duplicate"]

\* Insert(key, value) -> bool, with what it leaves in the pages
InsertIn(t, key, value, avail) ==
  LET hash == Hash(key)
      direc_idx == HeaderHashToDirectoryIndex(hash)
      direc_page_id == t.header[direc_idx]
  IN IF direc_page_id = INVALID_PAGE_ID
     THEN InsertToNewDirectory(t, direc_idx, hash, key, value, avail)
     ELSE
       LET bucket_idx == HashToBucketIndex(t.dirs[direc_page_id], hash)
           bucket_page_id == HashToPageId(t.dirs[direc_page_id], hash)
       IN IF bucket_page_id = INVALID_PAGE_ID
          THEN InsertToNewBucket(t, direc_page_id, bucket_idx, key, value, avail)
          ELSE
            InsertAfterSplit(
              SplitLoop(t, direc_page_id, bucket_page_id, bucket_idx, hash, avail, 0),
              key, value)

\* Remove(key) -> bool. The merge loop's condition is
\* bucket_page->IsEmpty() && !direc_page->GetGlobalDepth(): it is entered only at
\* global depth 0, where GetSplitImageIndex shifts by local_depth - 1 = -1 and the
\* directory arrays are then indexed out of range (undefined behaviour).
RemoveIn(t, key) ==
  LET hash == Hash(key)
      direc_page_id == t.header[HeaderHashToDirectoryIndex(hash)]
  IN IF direc_page_id = INVALID_PAGE_ID
     THEN [t |-> t, ret |-> FALSE, ub |-> FALSE, why |-> "nodirectory"]
     ELSE
       LET D == t.dirs[direc_page_id]
           bucket_page_id == HashToPageId(D, hash)
       IN IF bucket_page_id = INVALID_PAGE_ID
          THEN [t |-> t, ret |-> FALSE, ub |-> FALSE, why |-> "nobucket"]
          ELSE IF ~BucketHas(t.bkts[bucket_page_id], key)
          THEN [t |-> t, ret |-> FALSE, ub |-> FALSE, why |-> "absent"]
          ELSE
            LET B == BucketRemove(t.bkts[bucket_page_id], key)
                t1 == [t EXCEPT !.bkts = Put(t.bkts, bucket_page_id, B)]
            IN IF IsEmpty(B) /\ GetGlobalDepth(D) = 0
               THEN [t |-> t1, ret |-> FALSE, ub |-> TRUE, why |-> "merge-at-depth-0"]
               ELSE IF CanShrink(D)
               THEN [t |-> [t1 EXCEPT !.dirs = Put(t.dirs, direc_page_id, DecrGlobalDepth(D))],
                     ret |-> TRUE, ub |-> FALSE, why |-> "removed-shrunk"]
               ELSE [t |-> t1, ret |-> TRUE, ub |-> FALSE, why |-> "removed"]

\* what the read bucket_page_ids_[split_index] far outside the array can return
GarbagePageIds == {INVALID_PAGE_ID, 0}

\* The first pass of the merge loop at global depth 0 when the out-of-range
\* read does not fault: new_local_depth is 0 - 1 on uint32_t, SetLocalDepth
\* stores it as uint8_t, the emptied bucket page is deleted and the only slot
\* is pointed to the page id that the read returned. The directory has one
\* slot, index 0, so the value of new_mask does not matter.
MergeAtDepthZero(t, key, garbage) ==
  LET hash == Hash(key)
      direc_page_id == t.header[HeaderHashToDirectoryIndex(hash)]
      D == t.dirs[direc_page_id]
      bucket_idx == HashToBucketIndex(D, hash)
      bucket_page_id == GetBucketPageId(D, bucket_idx)
      new_local_depth == (GetLocalDepth(D, bucket_idx) - 1) % 256
  IN [t EXCEPT !.bkts = Drop(t.bkts, bucket_page_id),
               !.dirs = Put(t.dirs, direc_page_id,
                            UpdateDirectoryMapping(D, bucket_idx, garbage, new_local_depth,
                                                   Pow2(HashBits) - 1))]

\* ------------------------------------- part 2: the buffer pool manager
Frames == 0..(PoolSize - 1)

PageIds == 0..(MaxPages - 1)

\* a Page as constructed, and as ResetMemory and DeletePage leave it
PageInit == [page_id |-> INVALID_PAGE_ID, pin_count |-> 0, is_dirty |-> FALSE, data |-> 0]

\* no contents recorded
NoData == MaxData + 1

\* ---- LRUKReplacer, on R = [ns, cs, ts] (node_store_, curr_size_, current_timestamp_)
Replacer == [ns |-> node_store_, cs |-> curr_size_, ts |-> current_timestamp_]

\* LRUKNode::Insert(curr_timestamp, k)
LRUKNodeInsert(history, curr_timestamp, k) ==
  IF Len(history) = k THEN Append(Tail(history), curr_timestamp)
  ELSE Append(history, curr_timestamp)

\* LRUKNode::EarliestStamp
EarliestStamp(node) == Head(node.history)

\* a node as node_store_[frame_id] creates it
LRUKNodeInit == [history |-> <<>>, is_evictable |-> FALSE]

RecordAccess(R, frame_id) ==
  LET node == IF frame_id \in DOMAIN R.ns THEN R.ns[frame_id] ELSE LRUKNodeInit
  IN [R EXCEPT !.ns = Put(R.ns, frame_id,
                          [node EXCEPT !.history = LRUKNodeInsert(node.history, R.ts, ReplacerK)]),
               !.ts = R.ts + 1]

\* SetEvictable that adjusts the count and leaves the node's flag alone
SetEvictable_CountOnly(R, frame_id, set_evictable) ==
  LET old == R.ns[frame_id].is_evictable
  IN IF old = set_evictable THEN R
     ELSE [R EXCEPT !.cs = IF old THEN R.cs - 1 ELSE R.cs + 1]

SetEvictable(R, frame_id, set_evictable) ==
  LET old == R.ns[frame_id].is_evictable
  IN IF old = set_evictable THEN R
     ELSE [R EXCEPT !.ns[frame_id].is_evictable = ~old,
                    !.cs = IF old THEN R.cs - 1 ELSE R.cs + 1]

\* Remove that lowers the count and keeps the frame's node
ReplacerRemove_KeepNode(R, frame_id) ==
  IF frame_id \notin DOMAIN R.ns THEN R
  ELSE [R EXCEPT !.cs = R.cs - 1]

ReplacerRemove(R, frame_id) ==
  IF frame_id \notin DOMAIN R.ns THEN R
  ELSE [R EXCEPT !.ns = Drop(R.ns, frame_id), !.cs = R.cs - 1]

\* what the uninitialized max_fid of Evict can hold: a frame of the pool, -1,
\* or a value outside the pool (PoolSize stands for all of those)
GarbageFrames == Frames \cup {-1, PoolSize}

\* Evict(&frame_id): the outcomes [ret, frame_id, R]. With tracked frames but
\* none evictable, inf_fid stays -1 and erase_fid is the uninitialized max_fid.
Evict(R) ==
  IF DOMAIN R.ns = {}
  THEN {[ret |-> FALSE, frame_id |-> -1, R |-> R]}
  ELSE
    LET evictable == {f \in DOMAIN R.ns : R.ns[f].is_evictable}
        inf == {f \in evictable : Len(R.ns[f].history) # ReplacerK}
        full == evictable \ inf
        Oldest(S) == CHOOSE f \in S :
                       \A g \in S : EarliestStamp(R.ns[f]) <= EarliestStamp(R.ns[g])
        erase_fids == IF inf # {} THEN {Oldest(inf)}
                      ELSE IF full # {} THEN {Oldest(full)}
                      ELSE GarbageFrames
    IN {[ret |-> TRUE, frame_id |-> e,
         R |-> [R EXCEPT !.ns = Drop(R.ns, e), !.cs = R.cs - 1]] : e \in erase_fids}

\* a local variable of Evict that has not been assigned
Uninit == "uninitialized"

\* the loop of Evict over node_store_ in the iteration order `order`, on
\* acc = [inf_fid, inf_earliest_stamp, max_fid, max_kdist, assigned], where
\* assigned tells whether max_fid has been assigned
\* the loop body with the comparison of the short histories turned round
EvictStep_Latest(R, fid, acc) ==
  LET knode == R.ns[fid]
  IN IF ~knode.is_evictable THEN acc
     ELSE IF Len(knode.history) # ReplacerK
     THEN IF acc.inf_fid = -1 \/ EarliestStamp(knode) > acc.inf_earliest_stamp
          THEN [acc EXCEPT !.inf_fid = fid, !.inf_earliest_stamp = EarliestStamp(knode)]
          ELSE acc
     ELSE IF R.ts - EarliestStamp(knode) > acc.max_kdist
          THEN [acc EXCEPT !.max_kdist = R.ts - EarliestStamp(knode), !.max_fid = fid,
                           !.assigned = TRUE]
          ELSE acc

\* the loop body for the node of frame fid
EvictStep(R, fid, acc) ==
  LET knode == R.ns[fid]
  IN IF ~knode.is_evictable THEN acc
     ELSE IF Len(knode.history) # ReplacerK
     THEN IF acc.inf_fid = -1 \/ EarliestStamp(knode) < acc.inf_earliest_stamp
          THEN [acc EXCEPT !.inf_fid = fid, !.inf_earliest_stamp = EarliestStamp(knode)]
          ELSE acc
     ELSE IF R.ts - EarliestStamp(knode) > acc.max_kdist
          THEN [acc EXCEPT !.max_kdist = R.ts - EarliestStamp(knode), !.max_fid = fid,
                           !.assigned = TRUE]
          ELSE acc

RECURSIVE EvictLoop(_, _, _)
EvictLoop(R, order, acc) ==
  IF order = <<>> THEN acc
  ELSE EvictLoop(R, Tail(order), EvictStep(R, Head(order), acc))

\* the orders in which an unordered_map with the keys S can be iterated
Orders(S) ==
  {order \in [1..Cardinality(S) -> S] : \A i, j \in 1..Cardinality(S) :
                                           order[i] = order[j] => i = j}

\* Evict(&frame_id) as the code computes it: the outcomes [ret, frame_id, R]
\* over the iteration orders and over the values of an unassigned max_fid
EvictScan(R) ==
  IF DOMAIN R.ns = {}
  THEN {[ret |-> FALSE, frame_id |-> -1, R |-> R]}
  ELSE
    LET Acc(order) == EvictLoop(R, order,
                        [inf_fid |-> -1, inf_earliest_stamp |-> Uninit,
                         max_fid |-> Uninit, max_kdist |-> 0, assigned |-> FALSE])
        EraseFids(acc) == IF acc.inf_fid # -1 THEN {acc.inf_fid}
                          ELSE IF acc.assigned THEN {acc.max_fid}
                          ELSE GarbageFrames
    IN {[ret |-> TRUE, frame_id |-> e,
         R |-> [R EXCEPT !.ns = Drop(R.ns, e), !.cs = R.cs - 1]] :
          e \in UNION {EraseFids(Acc(order)) : order \in Orders(DOMAIN R.ns)}}

\* the frame NewPage and FetchPage take: the head of the free list, else Evict's
GetFrame ==
  IF free_list_ # <<>>
  THEN {[ret |-> TRUE, frame_id |-> Head(free_list_), R |-> Replacer, free |-> Tail(free_list_)]}
  ELSE {[ret |-> o.ret, frame_id |-> o.frame_id, R |-> o.R, free |-> free_list_] :
          o \in Evict(Replacer)}

\* the pool as constructed
BPFresh ==
  /\ pages_ = [f \in Frames |-> PageInit]
  /\ free_list_ = [i \in 1..PoolSize |-> i - 1]
  /\ page_table_ = <<>>
  /\ next_page_id_ = 0
  /\ node_store_ = <<>>
  /\ curr_size_ = 0
  /\ current_timestamp_ = 0
  /\ disk = [p \in PageIds |-> 0]
  /\ bpm_status = "ok"
  /\ bpm_last = [op |-> "none", ret |-> "none", wrote |-> {}]
  /\ committed = [p \in PageIds |-> NoData]

SetReplacer(R) ==
  /\ node_store_' = R.ns
  /\ curr_size_' = R.cs
  /\ current_timestamp_' = R.ts

\* the page ids NewPage and FetchPage write to disk when they take frame_id
WroteBack(frame_id) ==
  IF pages_[frame_id].is_dirty THEN {pages_[frame_id].page_id} ELSE {}

\* the tail of NewPage and FetchPage without the write of the dirty page
InstallPage_NoWriteBack(g, page_id, data) ==
  LET frame_id == g.frame_id
      page == pages_[frame_id]
  IN /\ disk' = disk
     /\ page_table_' = Put(Drop(page_table_, page.page_id), page_id, frame_id)
     /\ pages_' = [pages_ EXCEPT ![frame_id] =
                     [page_id |-> page_id, pin_count |-> 1, is_dirty |-> FALSE, data |-> data]]
     /\ free_list_' = g.free
     /\ SetReplacer(SetEvictable(RecordAccess(g.R, frame_id), frame_id, FALSE))

\* the tail of NewPage and FetchPage: write the frame's dirty page back, remap
\* the frame to page_id with pin count 1 and the given contents
InstallPage(g, page_id, data) ==
  LET frame_id == g.frame_id
      page == pages_[frame_id]
  IN /\ disk' = IF page.is_dirty THEN [disk EXCEPT ![page.page_id] = page.data] ELSE disk
     /\ page_table_' = Put(Drop(page_table_, page.page_id), page_id, frame_id)
     /\ pages_' = [pages_ EXCEPT ![frame_id] =
                     [page_id |-> page_id, pin_count |-> 1, is_dirty |-> FALSE, data |-> data]]
     /\ free_list_' = g.free
     /\ SetReplacer(SetEvictable(RecordAccess(g.R, frame_id), frame_id, FALSE))

Crash(op) ==
  /\ bpm_status' = "crash"
  /\ bpm_last' = [op |-> op, ret |-> "none", wrote |-> {}]
  /\ UNCHANGED <<pages_, free_list_, page_table_, next_page_id_, node_store_, curr_size_,
                 current_timestamp_, disk, committed>>

NewPage ==
  /\ bpm_status = "ok"
  /\ next_page_id_ < MaxPages
  /\ current_timestamp_ < MaxTime
  /\ curr_size_ > -MaxWrap
  /\ \E g \in GetFrame :
       IF ~g.ret \/ g.frame_id = -1
       THEN /\ SetReplacer(g.R)
            /\ bpm_last' = [op |-> "NewPage", ret |-> "fail", wrote |-> {}]
            /\ UNCHANGED <<pages_, free_list_, page_table_, next_page_id_, disk, bpm_status,
                           committed>>
       ELSE IF g.frame_id \notin Frames
       THEN Crash("NewPage")
       ELSE /\ InstallPage(g, next_page_id_, 0)
            /\ next_page_id_' = next_page_id_ + 1
            /\ bpm_last' = [op |-> "NewPage", ret |-> "ok", wrote |-> WroteBack(g.frame_id)]
            /\ UNCHANGED <<bpm_status, committed>>

FetchPage(page_id) ==
  /\ bpm_status = "ok"
  /\ IF page_id \in DOMAIN page_table_
     THEN LET frame_id == page_table_[page_id]
          IN /\ pages_[frame_id].pin_count < MaxPin
             /\ pages_' = [pages_ EXCEPT ![frame_id].pin_count = @ + 1]
             /\ SetReplacer(SetEvictable(Replacer, frame_id, FALSE))
             /\ bpm_last' = [op |-> "FetchPage", ret |-> "ok", wrote |-> {}]
             /\ UNCHANGED <<free_list_, page_table_, next_page_id_, disk, bpm_status>>
     ELSE /\ current_timestamp_ < MaxTime
          /\ \E g \in GetFrame :
               IF ~g.ret
               THEN /\ bpm_last' = [op |-> "FetchPage", ret |-> "fail", wrote |-> {}]
                    /\ UNCHANGED <<pages_, free_list_, page_table_, next_page_id_, node_store_,
                                   curr_size_, current_timestamp_, disk, bpm_status>>
               ELSE IF g.frame_id \notin Frames
               THEN Crash("FetchPage")
               ELSE /\ InstallPage(g, page_id, disk[page_id])
                    /\ bpm_last' = [op |-> "FetchPage", ret |-> "ok",
                                    wrote |-> WroteBack(g.frame_id)]
                    /\ UNCHANGED <<next_page_id_, bpm_status>>
  /\ UNCHANGED committed

\* UnpinPage without the test of a pin count that is already 0
UnpinPage_NoZeroCheck(page_id, is_dirty) ==
  /\ bpm_status = "ok"
  /\ IF page_id \notin DOMAIN page_table_
     THEN /\ bpm_last' = [op |-> "UnpinPage", ret |-> "fail", wrote |-> {}]
          /\ UNCHANGED <<pages_, node_store_, curr_size_, current_timestamp_, committed>>
     ELSE LET frame_id == page_table_[page_id]
              pin_count == pages_[frame_id].pin_count - 1
          IN /\ pages_' = [pages_ EXCEPT ![frame_id].pin_count = pin_count,
                                         ![frame_id].is_dirty = is_dirty]
             /\ SetReplacer(IF pin_count = 0 THEN SetEvictable(Replacer, frame_id, TRUE)
                            ELSE Replacer)
             /\ bpm_last' = [op |-> "UnpinPage", ret |-> "ok", wrote |-> {}]
             /\ committed' = IF is_dirty
                              THEN [committed EXCEPT ![page_id] = pages_[frame_id].data]
                              ELSE committed
  /\ UNCHANGED <<free_list_, page_table_, next_page_id_, disk, bpm_status>>

UnpinPage(page_id, is_dirty) ==
  /\ bpm_status = "ok"
  /\ IF page_id \notin DOMAIN page_table_ \/ pages_[page_table_[page_id]].pin_count = 0
     THEN /\ bpm_last' = [op |-> "UnpinPage", ret |-> "fail", wrote |-> {}]
          /\ UNCHANGED <<pages_, node_store_, curr_size_, current_timestamp_, committed>>
     ELSE LET frame_id == page_table_[page_id]
              pin_count == pages_[frame_id].pin_count - 1
          IN /\ pages_' = [pages_ EXCEPT ![frame_id].pin_count = pin_count,
                                         ![frame_id].is_dirty = is_dirty]
             /\ SetReplacer(IF pin_count = 0 THEN SetEvictable(Replacer, frame_id, TRUE)
                            ELSE Replacer)
             /\ bpm_last' = [op |-> "UnpinPage", ret |-> "ok", wrote |-> {}]
             /\ committed' = IF is_dirty
                              THEN [committed EXCEPT ![page_id] = pages_[frame_id].data]
                              ELSE committed
  /\ UNCHANGED <<free_list_, page_table_, next_page_id_, disk, bpm_status>>

\* DeletePage without page_table_.erase(page_id)
DeletePage_KeepEntry(page_id) ==
  /\ bpm_status = "ok"
  /\ IF page_id \notin DOMAIN page_table_ \/ pages_[page_table_[page_id]].pin_count # 0
     THEN /\ bpm_last' = [op |-> "DeletePage", ret |-> "fail", wrote |-> {}]
          /\ UNCHANGED <<pages_, free_list_, page_table_, node_store_, curr_size_,
                         current_timestamp_, committed>>
     ELSE LET frame_id == page_table_[page_id]
          IN /\ page_table_' = page_table_
             /\ SetReplacer(ReplacerRemove(Replacer, frame_id))
             /\ free_list_' = Append(free_list_, frame_id)
             /\ pages_' = [pages_ EXCEPT ![frame_id] = PageInit]
             /\ bpm_last' = [op |-> "DeletePage", ret |-> "ok", wrote |-> {}]
             /\ committed' = [committed EXCEPT ![page_id] = NoData]
  /\ UNCHANGED <<next_page_id_, disk, bpm_status>>

DeletePage(page_id) ==
  /\ bpm_status = "ok"
  /\ IF page_id \notin DOMAIN page_table_ \/ pages_[page_table_[page_id]].pin_count # 0
     THEN /\ bpm_last' = [op |-> "DeletePage", ret |-> "fail", wrote |-> {}]
          /\ UNCHANGED <<pages_, free_list_, page_table_, node_store_, curr_size_,
                         current_timestamp_, committed>>
     ELSE LET frame_id == page_table_[page_id]
          IN /\ page_table_' = Drop(page_table_, page_id)
             /\ SetReplacer(ReplacerRemove(Replacer, frame_id))
             /\ free_list_' = Append(free_list_, frame_id)
             /\ pages_' = [pages_ EXCEPT ![frame_id] = PageInit]
             /\ bpm_last' = [op |-> "DeletePage", ret |-> "ok", wrote |-> {}]
             /\ committed' = [committed EXCEPT ![page_id] = NoData]
  /\ UNCHANGED <<next_page_id_, disk, bpm_status>>

\* FlushPage that writes a resident page only when its dirty flag is set
FlushPage_OnlyDirty(page_id) ==
  /\ bpm_status = "ok"
  /\ IF page_id \notin DOMAIN page_table_
     THEN /\ bpm_last' = [op |-> "FlushPage", ret |-> "fail", wrote |-> {}]
          /\ UNCHANGED <<pages_, disk>>
     ELSE LET frame_id == page_table_[page_id]
              dirty == pages_[frame_id].is_dirty
          IN /\ disk' = IF dirty THEN [disk EXCEPT ![page_id] = pages_[frame_id].data]
                         ELSE disk
             /\ pages_' = [pages_ EXCEPT ![frame_id].is_dirty = FALSE]
             /\ bpm_last' = [op |-> "FlushPage", ret |-> "ok",
                             wrote |-> IF dirty THEN {page_id} ELSE {}]
  /\ UNCHANGED <<free_list_, page_table_, next_page_id_, node_store_, curr_size_,
                 current_timestamp_, bpm_status, committed>>

FlushPage(page_id) ==
  /\ bpm_status = "ok"
  /\ IF page_id \notin DOMAIN page_table_
     THEN /\ bpm_last' = [op |-> "FlushPage", ret |-> "fail", wrote |-> {}]
          /\ UNCHANGED <<pages_, disk>>
     ELSE LET frame_id == page_table_[page_id]
          IN /\ disk' = [disk EXCEPT ![page_id] = pages_[frame_id].data]
             /\ pages_' = [pages_ EXCEPT ![frame_id].is_dirty = FALSE]
             /\ bpm_last' = [op |-> "FlushPage", ret |-> "ok", wrote |-> {page_id}]
  /\ UNCHANGED <<free_list_, page_table_, next_page_id_, node_store_, curr_size_,
                 current_timestamp_, bpm_status, committed>>

FlushAllPages ==
  /\ bpm_status = "ok"
  /\ disk' = [p \in PageIds |-> IF p \in DOMAIN page_table_
                                THEN pages_[page_table_[p]].data ELSE disk[p]]
  /\ pages_' = [f \in Frames |-> IF \E p \in DOMAIN page_table_ : page_table_[p] = f
                                 THEN [pages_[f] EXCEPT !.is_dirty = FALSE]
                                 ELSE pages_[f]]
  /\ bpm_last' = [op |-> "FlushAllPages", ret |-> "ok", wrote |-> DOMAIN page_table_]
  /\ UNCHANGED <<free_list_, page_table_, next_page_id_, node_store_, curr_size_,
                 current_timestamp_, bpm_status, committed>>

\* the holder of a pin writes the page's bytes
WriteData(page_id, data) ==
  /\ bpm_status = "ok"
  /\ page_id \in DOMAIN page_table_
  /\ pages_[page_table_[page_id]].pin_count > 0
  /\ pages_[page_table_[page_id]].data # data
  /\ pages_' = [pages_ EXCEPT ![page_table_[page_id]].data = data]
  /\ bpm_last' = [op |-> "WriteData", ret |-> "ok", wrote |-> {}]
  /\ committed' = [committed EXCEPT ![page_id] = NoData]
  /\ UNCHANGED <<free_list_, page_table_, next_page_id_, node_store_, curr_size_,
                 current_timestamp_, disk, bpm_status>>

\* ------------------------------------------- part 3: the page guards
Owners == 1..MaxGuards

\* the guards that hold a latch
LatchKinds == {"read", "write"}

nullptr == -1

\* a holder that has neither a Page pointer nor a guard yet
NoGuard == [st |-> "idle", kind |-> "basic", page_ |-> nullptr, is_dirty_ |-> FALSE]

\* a guard whose page_ is nullptr: moved from, dropped, or built by a wrapper
EmptyGuard(kind) == [st |-> "live", kind |-> kind, page_ |-> nullptr, is_dirty_ |-> FALSE]

\* Page::rwlatch_ of a frame nobody has latched
Unlatched == [w |-> FALSE, r |-> 0]

GFresh ==
  /\ guards = [h \in Owners |-> NoGuard]
  /\ latch = [f \in Frames |-> Unlatched]
  /\ g_last = [op |-> "none", g |-> 0]

\* holders are taken in order
NextIdle(h) == guards[h].st = "idle" /\ \A i \in 1..(h - 1) : guards[i].st # "idle"

\* BasicPageGuard::PageId
PageId(h) == pages_[guards[h].page_].page_id

\* auto *page = bpm->NewPage(&page_id), by a caller that will build a guard of
\* the given kind around the page
NewPageFor(h, kind) ==
  /\ NextIdle(h)
  /\ NewPage
  /\ guards' = IF bpm_last'.ret = "ok"
               THEN [guards EXCEPT ![h] = [st |-> "pinned", kind |-> kind,
                                           page_ |-> page_table_'[next_page_id_],
                                           is_dirty_ |-> FALSE]]
               ELSE guards
  /\ g_last' = [op |-> "NewPage", g |-> h]
  /\ UNCHANGED <<latch, htVars, thVars>>

\* auto *page = bpm->FetchPage(page_id), likewise
FetchPageFor(h, kind, page_id) ==
  /\ NextIdle(h)
  /\ FetchPage(page_id)
  /\ guards' = IF bpm_last'.ret = "ok"
               THEN [guards EXCEPT ![h] = [st |-> "pinned", kind |-> kind,
                                           page_ |-> page_table_'[page_id],
                                           is_dirty_ |-> FALSE]]
               ELSE guards
  /\ g_last' = [op |-> "FetchPage", g |-> h]
  /\ UNCHANGED <<latch, htVars, thVars>>

\* BasicPageGuard(bpm, page): the guard takes over the caller's pin
BasicPageGuard(h) ==
  /\ bpm_status = "ok"
  /\ guards[h].st = "pinned" /\ guards[h].kind = "basic"
  /\ guards' = [guards EXCEPT ![h].st = "live"]
  /\ g_last' = [op |-> "BasicPageGuard", g |-> h]
  /\ UNCHANGED <<latch, htVars, bpVars, thVars>>

\* Page::RLatch: blocks while a writer holds the latch
RLatch(f) == latch[f].w = FALSE /\ latch' = [latch EXCEPT ![f].r = @ + 1]

\* Page::WLatch: blocks while anyone holds the latch
WLatch(f) == latch[f] = Unlatched /\ latch' = [latch EXCEPT ![f].w = TRUE]

\* Page::RUnlatch
RUnlatch(f) == latch' = [latch EXCEPT ![f].r = @ - 1]

\* Page::WUnlatch
WUnlatch(f) == latch' = [latch EXCEPT ![f].w = FALSE]

\* page->RLatch(); ReadPageGuard(bpm, page)
ReadPageGuard(h) ==
  /\ bpm_status = "ok"
  /\ guards[h].st = "pinned" /\ guards[h].kind = "read"
  /\ RLatch(guards[h].page_)
  /\ guards' = [guards EXCEPT ![h].st = "live"]
  /\ g_last' = [op |-> "ReadPageGuard", g |-> h]
  /\ UNCHANGED <<htVars, bpVars, thVars>>

\* page->WLatch(); WritePageGuard(bpm, page)
WritePageGuard(h) ==
  /\ bpm_status = "ok"
  /\ guards[h].st = "pinned" /\ guards[h].kind = "write"
  /\ WLatch(guards[h].page_)
  /\ guards' = [guards EXCEPT ![h].st = "live"]
  /\ g_last' = [op |-> "WritePageGuard", g |-> h]
  /\ UNCHANGED <<htVars, bpVars, thVars>>

\* BasicPageGuard::Drop, of a BasicPageGuard or of the guard_ inside a
\* ReadPageGuard or WritePageGuard whose Drop has released the latch
BasicDrop(h) ==
  /\ bpm_status = "ok"
  /\ \/ guards[h].st = "live" /\ guards[h].kind = "basic"
     \/ guards[h].st = "unlatched"
  /\ IF guards[h].page_ = nullptr
     THEN /\ guards' = [guards EXCEPT ![h].st = "live"]
          /\ g_last' = [op |-> "DropEmpty", g |-> h]
          /\ UNCHANGED bpVars
     ELSE /\ UnpinPage(PageId(h), guards[h].is_dirty_)
          /\ guards' = [guards EXCEPT ![h] = EmptyGuard(guards[h].kind)]
          /\ g_last' = [op |-> "Drop", g |-> h]
  /\ UNCHANGED <<latch, htVars, thVars>>

\* ReadPageGuard::Drop up to guard_.page_->RUnlatch()
ReadDrop(h) ==
  /\ bpm_status = "ok"
  /\ guards[h].st = "live" /\ guards[h].kind = "read"
  /\ IF guards[h].page_ = nullptr
     THEN /\ g_last' = [op |-> "DropEmpty", g |-> h]
          /\ UNCHANGED <<guards, latch>>
     ELSE /\ RUnlatch(guards[h].page_)
          /\ guards' = [guards EXCEPT ![h].st = "unlatched"]
          /\ g_last' = [op |-> "RUnlatch", g |-> h]
  /\ UNCHANGED <<htVars, bpVars, thVars>>

\* WritePageGuard::Drop up to guard_.page_->WUnlatch()
WriteDrop(h) ==
  /\ bpm_status = "ok"
  /\ guards[h].st = "live" /\ guards[h].kind = "write"
  /\ IF guards[h].page_ = nullptr
     THEN /\ g_last' = [op |-> "DropEmpty", g |-> h]
          /\ UNCHANGED <<guards, latch>>
     ELSE /\ WUnlatch(guards[h].page_)
          /\ guards' = [guards EXCEPT ![h].st = "unlatched"]
          /\ g_last' = [op |-> "WUnlatch", g |-> h]
  /\ UNCHANGED <<htVars, bpVars, thVars>>

\* the move constructors: that gives this its page_ and is_dirty_
MoveConstruct(that, this) ==
  /\ bpm_status = "ok"
  /\ guards[that].st = "live" /\ guards[that].page_ # nullptr
  /\ NextIdle(this)
  /\ guards' = [guards EXCEPT ![this] = guards[that],
                              ![that] = EmptyGuard(guards[that].kind)]
  /\ g_last' = [op |-> "Move", g |-> this]
  /\ UNCHANGED <<latch, htVars, bpVars, thVars>>

\* this = std::move(that) on a BasicPageGuard, or on a ReadPageGuard or
\* WritePageGuard whose Drop returns at once because it is empty: Drop(), then
\* this takes page_ and is_dirty_ of that, and that is left empty
MoveAssign(that, this) ==
  /\ bpm_status = "ok"
  /\ that # this
  /\ guards[that].st = "live" /\ guards[this].st = "live"
  /\ guards[that].kind = guards[this].kind
  /\ guards[this].kind = "basic" \/ guards[this].page_ = nullptr
  /\ IF guards[this].page_ = nullptr
     THEN UNCHANGED bpVars
     ELSE UnpinPage(PageId(this), guards[this].is_dirty_)
  /\ guards' = [guards EXCEPT ![this] = guards[that],
                              ![that] = EmptyGuard(guards[that].kind)]
  /\ g_last' = [op |-> "MoveAssign", g |-> this]
  /\ UNCHANGED <<latch, htVars, thVars>>

\* this = std::move(that) on a ReadPageGuard or WritePageGuard that holds a
\* page, up to guard_.page_->RUnlatch() (WUnlatch()) in Drop()
MoveAssignUnlatch(that, this) ==
  /\ bpm_status = "ok"
  /\ that # this
  /\ guards[that].st = "live" /\ guards[this].st = "live"
  /\ guards[that].kind = guards[this].kind
  /\ guards[this].kind \in LatchKinds /\ guards[this].page_ # nullptr
  /\ \A h \in Owners : guards[h].st # "assigning"
  /\ IF guards[this].kind = "read" THEN RUnlatch(guards[this].page_)
     ELSE WUnlatch(guards[this].page_)
  /\ guards' = [guards EXCEPT ![this].st = "assigning", ![that].st = "moving"]
  /\ g_last' = [op |-> "MoveAssignUnlatch", g |-> this]
  /\ UNCHANGED <<htVars, bpVars, thVars>>

\* the rest of that assignment: guard_.Drop() unpins the page, then
\* this->guard_ = std::move(that.guard_), whose own Drop() finds page_ null
MoveAssignGuard(that, this) ==
  /\ bpm_status = "ok"
  /\ guards[this].st = "assigning" /\ guards[that].st = "moving"
  /\ UnpinPage(PageId(this), guards[this].is_dirty_)
  /\ guards' = [guards EXCEPT ![this] = [guards[that] EXCEPT !.st = "live"],
                              ![that] = EmptyGuard(guards[that].kind)]
  /\ g_last' = [op |-> "MoveAssign", g |-> this]
  /\ UNCHANGED <<latch, htVars, thVars>>

\* UpgradeRead / UpgradeWrite up to the latch call: the local guard rg (wg) of
\* the given kind is built around this guard's bpm_ and page_; no call of the
\* pool is made. On an empty guard the latch call dereferences nullptr.
UpgradeBegin(this, rg, kind) ==
  /\ bpm_status = "ok"
  /\ guards[this].st = "live" /\ guards[this].kind = "basic"
  /\ NextIdle(rg)
  /\ IF guards[this].page_ = nullptr
     THEN /\ Crash("Upgrade")
          /\ UNCHANGED <<guards, latch>>
          /\ g_last' = [op |-> "UpgradeEmpty", g |-> this]
     ELSE /\ guards' = [guards EXCEPT ![this].st = "upgrading",
                                      ![rg] = [st |-> "upgraded", kind |-> kind,
                                               page_ |-> guards[this].page_,
                                               is_dirty_ |-> FALSE]]
          /\ g_last' = [op |-> "UpgradeBegin", g |-> rg]
          /\ UNCHANGED <<latch, bpVars>>
  /\ UNCHANGED <<htVars, thVars>>

\* the rest of an upgrade that unpins the page on the way
UpgradeLatch_Unpin(this, rg) ==
  /\ bpm_status = "ok"
  /\ guards[this].st = "upgrading" /\ guards[rg].st = "upgraded"
  /\ guards[this].page_ = guards[rg].page_
  /\ IF guards[rg].kind = "read" THEN RLatch(guards[rg].page_) ELSE WLatch(guards[rg].page_)
  /\ UnpinPage(PageId(this), guards[this].is_dirty_)
  /\ guards' = [guards EXCEPT ![this] = [@ EXCEPT !.st = "live", !.page_ = nullptr],
                              ![rg].st = "live"]
  /\ g_last' = [op |-> IF guards[rg].kind = "read" THEN "UpgradeRead" ELSE "UpgradeWrite",
                g |-> rg]
  /\ UNCHANGED <<htVars, thVars>>

\* the rest of UpgradeRead / UpgradeWrite: page_->RLatch() (WLatch()) blocks
\* until the latch is free, then bpm_ and page_ of this guard are set to
\* nullptr and rg (wg) is returned
UpgradeLatch(this, rg) ==
  /\ bpm_status = "ok"
  /\ guards[this].st = "upgrading" /\ guards[rg].st = "upgraded"
  /\ guards[this].page_ = guards[rg].page_
  /\ IF guards[rg].kind = "read" THEN RLatch(guards[rg].page_) ELSE WLatch(guards[rg].page_)
  /\ guards' = [guards EXCEPT ![this] = [@ EXCEPT !.st = "live", !.page_ = nullptr],
                              ![rg].st = "live"]
  /\ g_last' = [op |-> IF guards[rg].kind = "read" THEN "UpgradeRead" ELSE "UpgradeWrite",
                g |-> rg]
  /\ UNCHANGED <<htVars, bpVars, thVars>>

\* FetchPageBasic, FetchPageRead, FetchPageWrite and NewPageGuarded:
\* return {this, nullptr}
Wrapper(h, kind, op) ==
  /\ bpm_status = "ok"
  /\ NextIdle(h)
  /\ guards' = [guards EXCEPT ![h] = EmptyGuard(kind)]
  /\ g_last' = [op |-> op, g |-> h]
  /\ UNCHANGED <<latch, htVars, bpVars, thVars>>

FetchPageBasic(h, page_id) == Wrapper(h, "basic", "FetchPageBasic")

FetchPageRead(h, page_id) == Wrapper(h, "read", "FetchPageRead")

FetchPageWrite(h, page_id) == Wrapper(h, "write", "FetchPageWrite")

NewPageGuarded(h) == Wrapper(h, "basic", "NewPageGuarded")

\* a call of the pool made directly, by a caller that uses no guard
PoolOnly == UNCHANGED <<htVars, gdVars, thVars>>

\* ---- the trie
\* the paths from the root: the strings of at most n characters
RECURSIVE Paths(_)
Paths(n) ==
  IF n = 0 THEN {<<>>}
  ELSE LET S == Paths(n - 1)
       IN S \cup {Append(p, ch) : p \in {q \in S : Len(q) = n - 1}, ch \in 1..MaxChar}

\* A Trie is the node at every path: nullptr where the trie has no node, 0 for
\* a TrieNode, the value for a TrieNodeWithValue. Trie() has root_ == nullptr.
EmptyTrie == [p \in Paths(MaxKeyLen) |-> nullptr]

\* !children_.empty() of the node at path p
HasChildren(T, p) ==
  \E ch \in 1..MaxChar : Append(p, ch) \in Paths(MaxKeyLen) /\ T[Append(p, ch)] # nullptr

\* Trie::Get(key): the value, or nullptr
TrieGet(T, key) ==
  IF \E n \in 0..Len(key) : T[SubSeq(key, 1, n)] = nullptr THEN nullptr
  ELSE IF T[key] = 0 THEN nullptr
  ELSE T[key]

\* Trie::Put(key, value) with PutReversal: the nodes on the path are cloned or
\* made, the node of the key is a TrieNodeWithValue over the old children
TriePut(T, key, value) ==
  [p \in Paths(MaxKeyLen) |->
     IF p = key THEN value
     ELSE IF T[p] = nullptr /\ \E n \in 0..(Len(key) - 1) : p = SubSeq(key, 1, n) THEN 0
     ELSE T[p]]

\* the way back up of RemoveReversal and the end of Trie::Remove: a node
\* without children and without value is erased from its parent, the root
\* becomes nullptr
RECURSIVE RemoveReversal(_, _, _)
RemoveReversal(T, index, key) ==
  LET p == SubSeq(key, 1, index)
      T1 == IF ~HasChildren(T, p) /\ T[p] = 0 THEN [T EXCEPT ![p] = nullptr] ELSE T
  IN IF index = 0 THEN T1 ELSE RemoveReversal(T1, index - 1, key)

\* Trie::Remove(key): the same trie if the path of the key is not there,
\* else the node of the key becomes a TrieNode and the way up prunes
TrieRemove(T, key) ==
  IF \E n \in 0..Len(key) : T[SubSeq(key, 1, n)] = nullptr THEN T
  ELSE RemoveReversal([T EXCEPT ![key] = 0], Len(key), key)

\* ---- threads
Threads == 1..MaxThreads

\* a thread that is in no call
Idle == [st |-> "idle"]

\* no thread in a call, no latch and no lock held
THFresh ==
  /\ pc = [t \in Threads |-> Idle]
  /\ held = {}
  /\ latch_ = 0
  /\ root_ = EmptyTrie
  /\ root_partial = FALSE
  /\ root_lock_ = 0
  /\ write_lock_ = 0

\* ---- the calls a client makes
NoCall == [op |-> "none", ret |-> "none", why |-> "none", splits |-> 0]

Bool(b) == IF b THEN "true" ELSE "false"

\* the table as constructed with parameters c over bucket pages of kind m
HTFresh(c, m) ==
  /\ cfg = c
  /\ compaction = m
  /\ header = [i \in 0..(Pow2(c.hmd) - 1) |-> INVALID_PAGE_ID]
  /\ dirs = <<>>
  /\ bkts = <<>>
  /\ next_page_id = 1
  /\ expected = [k \in Keys |-> <<>>]
  /\ last = NoCall
  /\ status = "ok"
  /\ calls = 0

HTInit == BPFresh /\ GFresh /\ THFresh /\ \E c \in Configs, m \in {"shift", "swap"} : HTFresh(c, m)

Insert(key, value, avail) ==
  /\ status = "ok"
  /\ calls < cfg.calls
  /\ calls' = calls + 1
  /\ \E r \in {InsertIn(Tbl, key, value, avail)} :
        /\ header' = r.t.header
        /\ dirs' = r.t.dirs
        /\ bkts' = r.t.bkts
        /\ next_page_id' = r.t.next
        /\ expected' = IF r.ret /\ expected[key] = <<>>
                       THEN [expected EXCEPT ![key] = <<value>>] ELSE expected
        /\ last' = [op |-> "Insert", ret |-> Bool(r.ret), why |-> r.why,
                    splits |-> r.splits]
  /\ UNCHANGED <<cfg, compaction, status>>
  /\ UNCHANGED <<bpVars, gdVars, thVars>>

Remove(key) ==
  /\ status = "ok"
  /\ calls < cfg.calls
  /\ calls' = calls + 1
  /\ \E r \in {RemoveIn(Tbl, key)} :
        /\ header' = r.t.header
        /\ next_page_id' = r.t.next
        /\ expected' = IF r.ret THEN [expected EXCEPT ![key] = <<>>] ELSE expected
        /\ \E outcome \in (IF r.ub THEN {"crash", "hang", "corrupt"} ELSE {"ok"}) :
             /\ \E garbage \in (IF outcome = "corrupt" THEN GarbagePageIds ELSE {0}) :
                  \E t \in {IF outcome = "corrupt"
                             THEN MergeAtDepthZero(r.t, key, garbage) ELSE r.t} :
                    dirs' = t.dirs /\ bkts' = t.bkts
             /\ status' = outcome
             /\ last' = [op |-> "Remove", ret |-> IF r.ub THEN "none" ELSE Bool(r.ret),
                         why |-> r.why, splits |-> 0]
  /\ UNCHANGED <<cfg, compaction>>
  /\ UNCHANGED <<bpVars, gdVars, thVars>>

GetValue(key) ==
  /\ status = "ok"
  /\ LET result == GetValueOf(key)
     IN last' = [op |-> "GetValue", ret |-> Bool(result # <<>>), why |-> "none",
                 splits |-> 0]
  /\ UNCHANGED <<cfg, compaction, header, dirs, bkts, next_page_id, expected, status, calls>>
  /\ UNCHANGED <<bpVars, gdVars, thVars>>

HTNext ==
  \/ \E key \in cfg.keys, value \in Values, avail \in 0..MaxAvail : Insert(key, value, avail)
  \/ \E key \in cfg.keys : Remove(key)
  \/ \E key \in cfg.keys : GetValue(key)

SpecHT == HTInit /\ [][HTNext]_vars

\* the keys a successful Insert put in the table and no Remove took out
Present == {k \in Keys : expected[k] # <<>>}

\* The capacity scenario: one table of CapConfig; the client inserts keys that
\* are not in the table, each call with as many pages available as it can use.
CapInit == BPFresh /\ GFresh /\ THFresh /\ \E m \in {"shift", "swap"} : HTFresh(CapConfig, m)

CapNext == last.ret # "false" /\ \E key \in cfg.keys \ Present : Insert(key, 1, MaxAvail)

SpecCap == CapInit /\ [][CapNext]_vars

\* Fill and empty: the client inserts keys that are not in the table, each call
\* with as many pages available as it can use, and removes keys that are in it.
MergeNext ==
  \/ \E key \in cfg.keys \ Present, value \in Values : Insert(key, value, MaxAvail)
  \/ \E key \in cfg.keys \cap Present : Remove(key)

SpecMerge == HTInit /\ [][MergeNext]_vars

\* The pool on its own: callers make NewPage, FetchPage, UnpinPage and
\* DeletePage calls and write the pages they hold pinned.
BPInit == BPFresh /\ GFresh /\ THFresh /\ HTFresh(CapConfig, "shift")

BPNext ==
  \/ NewPage /\ PoolOnly
  \/ \E page_id \in 0..(next_page_id_ - 1) : FetchPage(page_id) /\ PoolOnly
  \/ \E page_id \in 0..(next_page_id_ - 1), is_dirty \in BOOLEAN :
       UnpinPage(page_id, is_dirty) /\ PoolOnly
  \/ \E page_id \in 0..(next_page_id_ - 1) : DeletePage(page_id) /\ PoolOnly
  \/ \E page_id \in 0..(next_page_id_ - 1), data \in 0..MaxData :
       WriteData(page_id, data) /\ PoolOnly

SpecBPM == BPInit /\ [][BPNext]_vars

\* Callers that flush: each page has one holder at a time, who writes it,
\* unpins it and flushes it; pages are never deleted.
FlushNext ==
  \/ NewPage /\ PoolOnly
  \/ \E page_id \in 0..(next_page_id_ - 1) :
       /\ page_id \in DOMAIN page_table_ => pages_[page_table_[page_id]].pin_count = 0
       /\ FetchPage(page_id) /\ PoolOnly
  \/ \E page_id \in DOMAIN page_table_, is_dirty \in BOOLEAN :
       /\ pages_[page_table_[page_id]].pin_count > 0
       /\ UnpinPage(page_id, is_dirty) /\ PoolOnly
  \/ \E page_id \in 0..(next_page_id_ - 1), data \in 0..MaxData :
       WriteData(page_id, data) /\ PoolOnly
  \/ \E page_id \in 0..(next_page_id_ - 1) : FlushPage(page_id) /\ PoolOnly
  \/ FlushAllPages /\ PoolOnly

SpecFlush == BPInit /\ [][FlushNext]_vars

\* ---- one directory page, worked on as Insert and Remove work on it
\* the page id of the directory
DirPage == 1

\* what 1 << -1 can give, as an index: GetSplitImageIndex of a slot of local
\* depth 0 returns bucket_idx with some high bit flipped, or bucket_idx
ShiftGarbage(bucket_idx) == {bucket_idx, bucket_idx + Pow2(HashBits)}

\* the table after an Insert that installed the directory and got no page for
\* the bucket
DirFresh ==
  /\ cfg = CapConfig
  /\ compaction = "shift"
  /\ header = [i \in 0..0 |-> DirPage]
  /\ dirs = [d \in {DirPage} |-> DirInit]
  /\ bkts = <<>>
  /\ next_page_id = DirPage + 1
  /\ expected = [k \in Keys |-> <<>>]
  /\ last = [op |-> "Insert", ret |-> "false", why |-> "nopage-after-directory", splits |-> 0]
  /\ status = "ok"
  /\ calls = 1

DirInitial == BPFresh /\ GFresh /\ THFresh /\ DirFresh

DirOnly == UNCHANGED <<cfg, compaction, header, bkts, expected, status, calls, bpVars, gdVars,
                       thVars>>

\* InsertToNewBucket: directory->SetBucketPageId(bucket_idx, bucket_page_id)
DirNewBucket(bucket_idx) ==
  /\ GetBucketPageId(dirs[DirPage], bucket_idx) = INVALID_PAGE_ID
  /\ dirs' = [dirs EXCEPT ![DirPage].ids[bucket_idx] = next_page_id]
  /\ next_page_id' = next_page_id + 1
  /\ last' = [op |-> "SetBucketPageId", idx |-> bucket_idx, ret |-> next_page_id]
  /\ DirOnly

\* the split loop finds the full bucket's local depth equal to the global
\* depth, below directory_max_depth_: direc_page->IncrGlobalDepth()
DirIncrGlobalDepth(bucket_idx) ==
  /\ GetBucketPageId(dirs[DirPage], bucket_idx) # INVALID_PAGE_ID
  /\ GetLocalDepth(dirs[DirPage], bucket_idx) = GetGlobalDepth(dirs[DirPage])
  /\ ~DirectoryAtMaxDepth(dirs[DirPage])
  /\ dirs' = [dirs EXCEPT ![DirPage] = IncrGlobalDepth(@)]
  /\ last' = [op |-> "IncrGlobalDepth", idx |-> bucket_idx, ret |-> 0]
  /\ UNCHANGED next_page_id
  /\ DirOnly

\* the split loop gives the bucket of slot bucket_idx, of local depth below the
\* global depth, a new page: UpdateDirectoryMapping(direc_page, bucket_idx,
\* new_bucket_page_id, local_depth + 1, new_mask)
DirSplit(bucket_idx) ==
  LET D == dirs[DirPage]
      local_depth == GetLocalDepth(D, bucket_idx)
      new_mask == Pow2(local_depth + 1) - 1
  IN /\ GetBucketPageId(D, bucket_idx) # INVALID_PAGE_ID
     /\ local_depth < GetGlobalDepth(D)
     /\ dirs' = [dirs EXCEPT ![DirPage] =
                   UpdateDirectoryMapping(D, bucket_idx, next_page_id, local_depth + 1, new_mask)]
     /\ next_page_id' = next_page_id + 1
     /\ last' = [op |-> "UpdateDirectoryMapping", idx |-> bucket_idx, ret |-> next_page_id]
     /\ DirOnly

\* the end of Remove: if (direc_page->CanShrink()) direc_page->DecrGlobalDepth()
DirShrink ==
  /\ CanShrink(dirs[DirPage])
  /\ dirs' = [dirs EXCEPT ![DirPage] = DecrGlobalDepth(@)]
  /\ last' = [op |-> "DecrGlobalDepth", idx |-> 0, ret |-> 0]
  /\ UNCHANGED next_page_id
  /\ DirOnly

\* direc_page->GetSplitImageIndex(bucket_idx)
DirSplitImage(bucket_idx) ==
  /\ \E split_index \in (IF GetLocalDepth(dirs[DirPage], bucket_idx) = 0
                         THEN ShiftGarbage(bucket_idx)
                         ELSE {GetSplitImageIndex(dirs[DirPage], bucket_idx)}) :
       last' = [op |-> "GetSplitImageIndex", idx |-> bucket_idx, ret |-> split_index]
  /\ UNCHANGED <<dirs, next_page_id>>
  /\ DirOnly

DirNext ==
  \/ \E bucket_idx \in 0..(Size(dirs[DirPage]) - 1) : DirNewBucket(bucket_idx)
  \/ \E bucket_idx \in 0..(Size(dirs[DirPage]) - 1) : DirIncrGlobalDepth(bucket_idx)
  \/ \E bucket_idx \in 0..(Size(dirs[DirPage]) - 1) : DirSplit(bucket_idx)
  \/ DirShrink
  \/ \E bucket_idx \in 0..(Size(dirs[DirPage]) - 1) : DirSplitImage(bucket_idx)

SpecDir == DirInitial /\ [][DirNext]_vars

\* ---- threads that call the table
\* header_page_id_: the constructor takes the pool's first page for the header
HeaderPageId == 0

\* Insert and Remove calls that one run of the threads makes
MaxThreadCalls == 3

\* some thread holds the write latch of the page
WLatched(page_id) == \E u \in Threads : <<u, page_id>> \in held

\* some thread holds a read latch of the page
RLatched(page_id) == \E u \in Threads : <<u, page_id, "r">> \in held

\* the page's latch can be taken: FetchPageRead, which GetValue calls, waits
\* for a writer; FetchPageWrite waits for a writer and for the readers
CanLatch(page_id, op) == ~WLatched(page_id) /\ (op = "GetValue" \/ ~RLatched(page_id))

\* the latch that thread t takes on the page in a call of op
Latched(t, page_id, op) == IF op = "GetValue" THEN <<t, page_id, "r">> ELSE <<t, page_id>>

\* thread t enters Insert(key, value) or Remove(key)
TableCall(t, op, key, value) ==
  /\ status = "ok"
  /\ pc[t] = Idle
  /\ calls + Cardinality({u \in Threads : pc[u] # Idle}) < MaxThreadCalls
  /\ pc' = [pc EXCEPT ![t] = [st |-> "called", op |-> op, key |-> key, value |-> value,
                              direc_page_id |-> INVALID_PAGE_ID, bucket_idx |-> 0,
                              bucket_page_id |-> INVALID_PAGE_ID]]
  /\ UNCHANGED <<held, latch_, htVars, tsVars, bpVars, gdVars>>

\* FetchHeader that does not wait for the header's write latch
FetchHeader_NoLatch(t) ==
  /\ status = "ok"
  /\ pc[t].st = "called"
  /\ held' = held \cup {Latched(t, HeaderPageId, pc[t].op)}
  /\ pc' = [pc EXCEPT ![t].st = "header",
                      ![t].direc_page_id = HeaderHashToPageId(Hash(pc[t].key))]
  /\ UNCHANGED <<latch_, htVars, tsVars, bpVars, gdVars>>

\* auto guard = bpm_->FetchPageWrite(header_page_id_), in GetValue
\* FetchPageRead, returns with the header's latch, and the thread reads
\* direc_page_id from the header
FetchHeader(t) ==
  /\ status = "ok"
  /\ pc[t].st = "called"
  /\ CanLatch(HeaderPageId, pc[t].op)
  /\ held' = held \cup {Latched(t, HeaderPageId, pc[t].op)}
  /\ pc' = [pc EXCEPT ![t].st = "header",
                      ![t].direc_page_id = HeaderHashToPageId(Hash(pc[t].key))]
  /\ UNCHANGED <<latch_, htVars, tsVars, bpVars, gdVars>>

\* auto direc_guard = bpm_->FetchPageWrite(direc_page_id), in GetValue
\* FetchPageRead, returns with the directory's latch, and the thread reads
\* bucket_idx and bucket_page_id
FetchDirectory(t) ==
  /\ status = "ok"
  /\ pc[t].st = "header"
  /\ pc[t].direc_page_id # INVALID_PAGE_ID
  /\ CanLatch(pc[t].direc_page_id, pc[t].op)
  /\ held' = held \cup {Latched(t, pc[t].direc_page_id, pc[t].op)}
  /\ LET hash == Hash(pc[t].key)
         D == dirs[pc[t].direc_page_id]
     IN pc' = [pc EXCEPT ![t].st = "directory",
                         ![t].bucket_idx = HashToBucketIndex(D, hash),
                         ![t].bucket_page_id = HashToPageId(D, hash)]
  /\ UNCHANGED <<latch_, htVars, tsVars, bpVars, gdVars>>

\* Insert from the point where the thread has read its locals L
InsertRest(t, L, avail) ==
  LET hash == Hash(L.key)
  IN IF L.direc_page_id = INVALID_PAGE_ID
     THEN InsertToNewDirectory(t, HeaderHashToDirectoryIndex(hash), hash, L.key, L.value, avail)
     ELSE IF L.bucket_page_id = INVALID_PAGE_ID
     THEN InsertToNewBucket(t, L.direc_page_id, L.bucket_idx, L.key, L.value, avail)
     ELSE InsertAfterSplit(
            SplitLoop(t, L.direc_page_id, L.bucket_page_id, L.bucket_idx, hash, avail, 0),
            L.key, L.value)

\* Remove from the point where the thread has read its locals L
RemoveRest(t, L) ==
  IF L.direc_page_id = INVALID_PAGE_ID
  THEN [t |-> t, ret |-> FALSE, ub |-> FALSE, why |-> "nodirectory"]
  ELSE IF L.bucket_page_id = INVALID_PAGE_ID
  THEN [t |-> t, ret |-> FALSE, ub |-> FALSE, why |-> "nobucket"]
  ELSE IF ~BucketHas(t.bkts[L.bucket_page_id], L.key)
  THEN [t |-> t, ret |-> FALSE, ub |-> FALSE, why |-> "absent"]
  ELSE
    LET D == t.dirs[L.direc_page_id]
        B == BucketRemove(t.bkts[L.bucket_page_id], L.key)
        t1 == [t EXCEPT !.bkts = Put(t.bkts, L.bucket_page_id, B)]
    IN IF IsEmpty(B) /\ GetGlobalDepth(D) = 0
       THEN [t |-> t1, ret |-> FALSE, ub |-> TRUE, why |-> "merge-at-depth-0"]
       ELSE IF CanShrink(D)
       THEN [t |-> [t1 EXCEPT !.dirs = Put(t.dirs, L.direc_page_id, DecrGlobalDepth(D))],
             ret |-> TRUE, ub |-> FALSE, why |-> "removed-shrunk"]
       ELSE [t |-> t1, ret |-> TRUE, ub |-> FALSE, why |-> "removed"]

\* the thread has the guards it takes before it works on the pages
AtWork(t) ==
  \/ pc[t].st = "header" /\ pc[t].direc_page_id = INVALID_PAGE_ID
  \/ pc[t].st = "directory"

\* The rest of Insert or Remove of thread t, from the bucket's write guard to
\* the return, where the guards go out of scope and give their latches up. A
\* call that crashes or never leaves its loop does not return and keeps them.
TableReturn(t, avail) ==
  /\ status = "ok"
  /\ AtWork(t) /\ pc[t].op # "GetValue"
  /\ (pc[t].st = "directory" /\ pc[t].bucket_page_id # INVALID_PAGE_ID)
       => CanLatch(pc[t].bucket_page_id, pc[t].op)
  /\ calls' = calls + 1
  /\ LET L == pc[t]
     IN IF L.op = "Insert"
        THEN \E r \in {InsertRest(Tbl, L, avail)} :
               /\ header' = r.t.header
               /\ dirs' = r.t.dirs
               /\ bkts' = r.t.bkts
               /\ next_page_id' = r.t.next
               /\ expected' = IF r.ret /\ expected[L.key] = <<>>
                              THEN [expected EXCEPT ![L.key] = <<L.value>>] ELSE expected
               /\ last' = [op |-> "Insert", ret |-> Bool(r.ret), why |-> r.why,
                           splits |-> r.splits]
               /\ status' = status
        ELSE \E r \in {RemoveRest(Tbl, L)} :
               /\ header' = r.t.header
               /\ next_page_id' = r.t.next
               /\ expected' = IF r.ret THEN [expected EXCEPT ![L.key] = <<>>] ELSE expected
               /\ \E outcome \in (IF r.ub THEN {"crash", "hang", "corrupt"} ELSE {"ok"}) :
                    /\ \E garbage \in (IF outcome = "corrupt" THEN GarbagePageIds ELSE {0}) :
                         \E t1 \in {IF outcome = "corrupt"
                                     THEN MergeAtDepthZero(r.t, L.key, garbage) ELSE r.t} :
                           dirs' = t1.dirs /\ bkts' = t1.bkts
                    /\ status' = outcome
                    /\ last' = [op |-> "Remove",
                                ret |-> IF r.ub THEN "none" ELSE Bool(r.ret),
                                why |-> r.why, splits |-> 0]
  /\ pc' = IF status' \in {"crash", "hang"} THEN pc ELSE [pc EXCEPT ![t] = Idle]
  /\ held' = IF status' \in {"crash", "hang"} THEN held ELSE {h \in held : h[1] # t}
  /\ UNCHANGED <<cfg, compaction, latch_, tsVars, bpVars, gdVars>>

\* The rest of GetValue of thread t: the bucket's read guard, the lookup and
\* the return.
GetValueReturn(t) ==
  /\ status = "ok"
  /\ AtWork(t) /\ pc[t].op = "GetValue"
  /\ (pc[t].st = "directory" /\ pc[t].bucket_page_id # INVALID_PAGE_ID)
       => CanLatch(pc[t].bucket_page_id, pc[t].op)
  /\ last' = [op |-> "GetValue", ret |-> Bool(GetValueIn(Tbl, pc[t].key) # <<>>),
              why |-> "none", splits |-> 0]
  /\ calls' = calls + 1
  /\ pc' = [pc EXCEPT ![t] = Idle]
  /\ held' = {h \in held : h[1] # t}
  /\ UNCHANGED <<cfg, compaction, header, dirs, bkts, next_page_id, expected, status, latch_,
                 tsVars, bpVars, gdVars>>

\* Threads that insert into and remove from one table.
ThreadNext ==
  \/ \E t \in Threads, key \in cfg.keys : TableCall(t, "Insert", key, 1)
  \/ \E t \in Threads, key \in cfg.keys : TableCall(t, "Remove", key, 1)
  \/ \E t \in Threads : FetchHeader(t)
  \/ \E t \in Threads : FetchDirectory(t)
  \/ \E t \in Threads, avail \in {0, MaxAvail} : TableReturn(t, avail)

SpecThreads == HTInit /\ [][ThreadNext]_vars

\* Threads that insert, remove and look up. A thread that can take its next
\* step takes it in the end: a free latch is given to a thread that waits for
\* it, and a thread that holds its guards runs on to its return.
LiveThreadNext ==
  \/ ThreadNext
  \/ \E t \in Threads, key \in cfg.keys : TableCall(t, "GetValue", key, 1)
  \/ \E t \in Threads : GetValueReturn(t)

LiveThreads ==
  /\ HTInit
  /\ [][LiveThreadNext]_vars
  /\ \A t \in Threads :
       /\ WF_vars(FetchHeader(t))
       /\ WF_vars(FetchDirectory(t))
       /\ WF_vars(\E avail \in {0, MaxAvail} : TableReturn(t, avail))
       /\ WF_vars(GetValueReturn(t))

\* ---- a thread that calls the table on the pool
\* the pin count of every page, 0 for a page that is not in the pool
PagePins ==
  [p \in 0..(MaxPages - 1) |->
     IF p \in DOMAIN page_table_ THEN pages_[page_table_[p]].pin_count ELSE 0]

\* the pages that GetValue(key) and Remove(key) fetch, in order: the header,
\* the directory of the key and its bucket, as far as the table has them
Path(key) ==
  LET hash == Hash(key)
      direc_page_id == HeaderHashToPageId(hash)
  IN IF direc_page_id = INVALID_PAGE_ID THEN <<HeaderPageId>>
     ELSE LET bucket_page_id == HashToPageId(dirs[direc_page_id], hash)
          IN IF bucket_page_id = INVALID_PAGE_ID THEN <<HeaderPageId, direc_page_id>>
             ELSE <<HeaderPageId, direc_page_id, bucket_page_id>>

\* thread t enters GetValue(key) or Remove(key); the pages of the table are
\* pages of the pool. GetValue has no test of the bucket's page id, so it is
\* called where it finds no directory or finds the bucket.
PathCall(t, op, key) ==
  /\ bpm_status = "ok"
  /\ \A u \in Threads : pc[u] = Idle
  /\ \A i \in 1..Len(Path(key)) : Path(key)[i] < next_page_id_
  /\ op = "GetValue" => Len(Path(key)) # 2
  /\ pc' = [pc EXCEPT ![t] = [st |-> "fetch", op |-> op, path |-> Path(key), guards |-> <<>>,
                              pins |-> PagePins]]
  /\ UNCHANGED <<held, latch_, htVars, tsVars, bpVars, gdVars>>

\* bpm_->FetchPageRead(page_id) and bpm_->FetchPageWrite(page_id) up to the
\* return of FetchPage: the guard has the frame, or is empty and the call
\* goes to return false
PathFetch(t) ==
  /\ pc[t].st = "fetch"
  /\ pc[t].path # <<>>
  /\ FetchPage(Head(pc[t].path))
  /\ IF bpm_last'.ret = "ok"
     THEN pc' = [pc EXCEPT ![t].st = "latch",
                           ![t].guards = <<[page_ |-> page_table_'[Head(pc[t].path)],
                                            latched |-> FALSE]>> \o @,
                           ![t].path = Tail(@)]
     ELSE pc' = [pc EXCEPT ![t].st = "return"]
  /\ UNCHANGED <<held, latch_, htVars, tsVars, gdVars>>

\* page->RLatch() of FetchPageRead and page->WLatch() of FetchPageWrite; with
\* the last page of its path latched the call works on the pages and returns
PathLatch(t) ==
  /\ bpm_status = "ok"
  /\ pc[t].st = "latch"
  /\ IF pc[t].op = "GetValue" THEN RLatch(Head(pc[t].guards).page_)
     ELSE WLatch(Head(pc[t].guards).page_)
  /\ pc' = [pc EXCEPT ![t].st = IF pc[t].path = <<>> THEN "return" ELSE "fetch",
                      ![t].guards = <<[Head(@) EXCEPT !.latched = TRUE]>> \o Tail(@)]
  /\ UNCHANGED <<held, latch_, guards, g_last, htVars, tsVars, bpVars>>

\* at the return the guards are destroyed, the last one made first:
\* ReadPageGuard::Drop and WritePageGuard::Drop up to the unlatch
PathUnlatch(t) ==
  /\ bpm_status = "ok"
  /\ pc[t].st = "return"
  /\ pc[t].guards # <<>> /\ Head(pc[t].guards).latched
  /\ IF pc[t].op = "GetValue" THEN RUnlatch(Head(pc[t].guards).page_)
     ELSE WUnlatch(Head(pc[t].guards).page_)
  /\ pc' = [pc EXCEPT ![t].guards = <<[Head(@) EXCEPT !.latched = FALSE]>> \o Tail(@)]
  /\ UNCHANGED <<held, latch_, guards, g_last, htVars, tsVars, bpVars>>

\* guard_.Drop() of the guard that was unlatched: BasicPageGuard::Drop unpins
\* the page that its frame holds now; AsMut has made the guards of Remove dirty
PathUnpin(t) ==
  /\ pc[t].st = "return"
  /\ pc[t].guards # <<>> /\ ~Head(pc[t].guards).latched
  /\ UnpinPage(pages_[Head(pc[t].guards).page_].page_id, pc[t].op = "Remove")
  /\ pc' = [pc EXCEPT ![t].guards = Tail(@)]
  /\ UNCHANGED <<held, latch_, htVars, tsVars, gdVars>>

\* the call has returned
PathReturn(t) ==
  /\ bpm_status = "ok"
  /\ pc[t].st = "return"
  /\ pc[t].guards = <<>>
  /\ pc' = [pc EXCEPT ![t] = Idle]
  /\ UNCHANGED <<held, latch_, htVars, tsVars, bpVars, gdVars>>

\* A table with its header, or with its header and one directory; between the
\* calls of the thread other callers of the pool make pages, while the pool
\* has a frame for them, and unpin them.
PathInit == BPFresh /\ GFresh /\ THFresh /\ (DirFresh \/ HTFresh(CapConfig, "shift"))

PathNext ==
  \/ /\ \A u \in Threads : pc[u] = Idle
     /\ free_list_ # <<>> \/ \E f \in DOMAIN node_store_ : node_store_[f].is_evictable
     /\ NewPage /\ PoolOnly
  \/ /\ \A u \in Threads : pc[u] = Idle
     /\ \E page_id \in 0..(next_page_id_ - 1) : UnpinPage(page_id, FALSE) /\ PoolOnly
  \/ \E t \in Threads, key \in cfg.keys : PathCall(t, "GetValue", key)
  \/ \E t \in Threads, key \in cfg.keys : PathCall(t, "Remove", key)
  \/ \E t \in Threads : PathFetch(t)
  \/ \E t \in Threads : PathLatch(t)
  \/ \E t \in Threads : PathUnlatch(t)
  \/ \E t \in Threads : PathUnpin(t)
  \/ \E t \in Threads : PathReturn(t)

SpecPath == PathInit /\ [][PathNext]_vars

\* ---- threads that call the trie store
\* the keys the threads use: a key, a key that continues it, and another key
StoreKeys == {<<1>>, <<1, 2>>, <<2>>}

\* thread t enters Get(key), Put(key, value) or Remove(key)
StoreCall(t, op, key, value) ==
  /\ pc[t] = Idle
  /\ pc' = [pc EXCEPT ![t] = [st |-> "called", op |-> op, key |-> key, value |-> value,
                              old_trie |-> EmptyTrie, partial |-> FALSE,
                              new_trie |-> EmptyTrie]]
  /\ UNCHANGED <<held, latch_, tsVars, htVars, bpVars, gdVars>>

\* write_lock_.lock() that does not wait
WriteLock_NoWait(t) ==
  /\ pc[t].st = "called" /\ pc[t].op # "Get"
  /\ write_lock_' = t
  /\ pc' = [pc EXCEPT ![t].st = "locked"]
  /\ UNCHANGED <<held, latch_, root_, root_partial, root_lock_, htVars, bpVars, gdVars>>

\* write_lock_.lock() of Put and Remove
WriteLock(t) ==
  /\ pc[t].st = "called" /\ pc[t].op # "Get"
  /\ write_lock_ = 0
  /\ write_lock_' = t
  /\ pc' = [pc EXCEPT ![t].st = "locked"]
  /\ UNCHANGED <<held, latch_, root_, root_partial, root_lock_, htVars, bpVars, gdVars>>

\* root_lock_.lock(): at the start of Get, after write_lock_.lock(), and
\* before the assignment to root_
RootLock(t) ==
  /\ \/ pc[t].st = "called" /\ pc[t].op = "Get"
     \/ pc[t].st \in {"locked", "computed"}
  /\ root_lock_ = 0
  /\ root_lock_' = t
  /\ pc' = [pc EXCEPT ![t].st = IF pc[t].st = "computed" THEN "assign" ELSE "copy"]
  /\ UNCHANGED <<held, latch_, root_, root_partial, write_lock_, htVars, bpVars, gdVars>>

\* auto old_trie = root_; root_lock_.unlock();
CopyRoot(t) ==
  /\ pc[t].st = "copy"
  /\ pc' = [pc EXCEPT ![t].st = "copied", ![t].old_trie = root_, ![t].partial = root_partial]
  /\ root_lock_' = 0
  /\ UNCHANGED <<held, latch_, root_, root_partial, write_lock_, htVars, bpVars, gdVars>>

\* the rest of Get: old_trie.Get<T>(key), *value and the return. When the key
\* is not in the trie, *value is applied to nullptr: the call returns
\* std::nullopt or the process stops.
GetReturn(t) ==
  /\ pc[t].st = "copied" /\ pc[t].op = "Get"
  /\ \E outcome \in (IF TrieGet(pc[t].old_trie, pc[t].key) = nullptr
                     THEN {"return", "crash"} ELSE {"return"}) :
       pc' = IF outcome = "return" THEN [pc EXCEPT ![t] = Idle]
             ELSE [u \in Threads |-> [st |-> "crash"]]
  /\ UNCHANGED <<held, latch_, tsVars, htVars, bpVars, gdVars>>

\* new_trie = old_trie.Put<T>(key, std::move(value)) and old_trie.Remove(key)
NewTrie(t) ==
  /\ pc[t].st = "copied" /\ pc[t].op # "Get"
  /\ pc' = [pc EXCEPT ![t].st = "computed",
                      ![t].new_trie = IF pc[t].op = "Put"
                                      THEN TriePut(pc[t].old_trie, pc[t].key, pc[t].value)
                                      ELSE TrieRemove(pc[t].old_trie, pc[t].key)]
  /\ UNCHANGED <<held, latch_, tsVars, htVars, bpVars, gdVars>>

\* root_ = new_trie begins: the assignment is not one atomic write
AssignRoot(t) ==
  /\ pc[t].st = "assign"
  /\ root_partial' = TRUE
  /\ pc' = [pc EXCEPT ![t].st = "assigning"]
  /\ UNCHANGED <<held, latch_, root_, root_lock_, write_lock_, htVars, bpVars, gdVars>>

\* root_ = new_trie is done; root_lock_.unlock();
AssignedRoot(t) ==
  /\ pc[t].st = "assigning"
  /\ root_' = pc[t].new_trie
  /\ root_partial' = FALSE
  /\ root_lock_' = 0
  /\ pc' = [pc EXCEPT ![t].st = "assigned"]
  /\ UNCHANGED <<held, latch_, write_lock_, htVars, bpVars, gdVars>>

\* write_lock_.unlock(); and the return of Put and Remove
WriteUnlock(t) ==
  /\ pc[t].st = "assigned"
  /\ write_lock_' = 0
  /\ pc' = [pc EXCEPT ![t] = Idle]
  /\ UNCHANGED <<held, latch_, root_, root_partial, root_lock_, htVars, bpVars, gdVars>>

\* Threads that get, put and remove on one TrieStore.
StoreNext ==
  \/ \E t \in Threads, key \in StoreKeys : StoreCall(t, "Get", key, 1)
  \/ \E t \in Threads, key \in StoreKeys, value \in Values : StoreCall(t, "Put", key, value)
  \/ \E t \in Threads, key \in StoreKeys : StoreCall(t, "Remove", key, 1)
  \/ \E t \in Threads : WriteLock(t)
  \/ \E t \in Threads : RootLock(t)
  \/ \E t \in Threads : CopyRoot(t)
  \/ \E t \in Threads : GetReturn(t)
  \/ \E t \in Threads : NewTrie(t)
  \/ \E t \in Threads : AssignRoot(t)
  \/ \E t \in Threads : AssignedRoot(t)
  \/ \E t \in Threads : WriteUnlock(t)

SpecStore == BPInit /\ [][StoreNext]_vars

\* ---- threads that call the pool
\* Every function of the pool locks latch_ on entry and works on the pool with
\* latch_ held, so a call changes the pool in the step in which it takes
\* latch_. What remains of the call is its waits on the futures of the disk
\* requests it scheduled, in the order in which it makes them, and the unlock.
IOWaits(op, page_id) ==
  LET victim == IF bpm_last'.wrote # {} THEN <<"victim_write">> ELSE <<>>
  IN CASE op = "NewPage" -> IF bpm_last'.ret = "ok" THEN victim ELSE <<>>
       [] op = "FetchPage" -> IF bpm_last'.ret = "ok" /\ page_id \notin DOMAIN page_table_
                              THEN victim \o <<"read">> ELSE <<>>
       [] op = "FlushPage" -> IF bpm_last'.ret = "ok" THEN <<"flush">> ELSE <<>>
       [] op = "FlushAllPages" -> [i \in 1..Cardinality(DOMAIN page_table_) |-> "flush"]
       [] OTHER -> <<>>

\* thread t makes the call: latch_.lock() returns when no thread holds latch_;
\* a call without a wait reaches its latch_.unlock() in the same step
Locked(t, op, page_id) ==
  /\ pc[t] = Idle
  /\ latch_ = 0
  /\ \E waits \in {IOWaits(op, page_id)} :
       IF waits = <<>>
       THEN UNCHANGED <<pc, latch_>>
       ELSE /\ pc' = [pc EXCEPT ![t] = [st |-> "wait", op |-> op, waits |-> waits]]
            /\ latch_' = t
  /\ UNCHANGED <<held, htVars, tsVars, gdVars>>

\* thread t is in futrue.get()
Waiting(t) ==
  /\ pc[t].st = "wait"
  /\ latch_ = t
  /\ bpm_status = "ok"

\* the disk scheduler's worker fulfils the promise thread t waits for: t goes
\* on to its next wait, or to latch_.unlock() and the return
DiskDone(t) ==
  /\ Waiting(t)
  /\ IF Len(pc[t].waits) > 1
     THEN /\ pc' = [pc EXCEPT ![t].waits = Tail(@)]
          /\ UNCHANGED latch_
     ELSE /\ pc' = [pc EXCEPT ![t] = Idle]
          /\ latch_' = 0
  /\ UNCHANGED <<held, htVars, tsVars, bpVars, gdVars>>

\* Threads that call the pool: each page has one holder at a time, who unpins
\* it; any thread flushes.
LockNext ==
  \/ \E t \in Threads : NewPage /\ Locked(t, "NewPage", 0)
  \/ \E t \in Threads, page_id \in 0..(next_page_id_ - 1) :
       /\ page_id \in DOMAIN page_table_ => pages_[page_table_[page_id]].pin_count = 0
       /\ FetchPage(page_id) /\ Locked(t, "FetchPage", page_id)
  \/ \E t \in Threads, page_id \in DOMAIN page_table_, is_dirty \in BOOLEAN :
       /\ pages_[page_table_[page_id]].pin_count > 0
       /\ UnpinPage(page_id, is_dirty) /\ Locked(t, "UnpinPage", page_id)
  \/ \E t \in Threads, page_id \in 0..(next_page_id_ - 1) :
       FlushPage(page_id) /\ Locked(t, "FlushPage", page_id)
  \/ \E t \in Threads : FlushAllPages /\ Locked(t, "FlushAllPages", 0)
  \/ \E t \in Threads : DiskDone(t)

SpecLock == BPInit /\ [][LockNext]_vars

\* ---- a replacer used on its own, LRUKReplacer(ReplacerSize, ReplacerK)
\* the frame ids its callers pass
LruFrameIds == -1..(ReplacerSize + 1)

ReplacerOnly == UNCHANGED <<pages_, free_list_, page_table_, next_page_id_, disk, bpm_status,
                            committed, htVars, gdVars, thVars>>

\* static_cast<uint32_t>(frame_id) > n, for 0 <= n < 2^31: a negative
\* frame_id converts to 2^32 + frame_id, which is above n
Uint32Above(frame_id, n) == frame_id < 0 \/ frame_id > n

CallRecordAccess(frame_id) ==
  /\ bpm_status = "ok"
  /\ current_timestamp_ < LruTime
  /\ IF Uint32Above(frame_id, ReplacerSize)
     THEN /\ bpm_last' = [op |-> "RecordAccess", ret |-> "throw", frame_id |-> frame_id]
          /\ UNCHANGED <<node_store_, curr_size_, current_timestamp_>>
     ELSE /\ SetReplacer(RecordAccess(Replacer, frame_id))
          /\ bpm_last' = [op |-> "RecordAccess", ret |-> "ok", frame_id |-> frame_id]
  /\ ReplacerOnly

CallSetEvictable(frame_id, set_evictable) ==
  /\ bpm_status = "ok"
  /\ IF frame_id \notin DOMAIN node_store_
     THEN /\ bpm_last' = [op |-> "SetEvictable", ret |-> "throw", frame_id |-> frame_id]
          /\ UNCHANGED <<node_store_, curr_size_, current_timestamp_>>
     ELSE /\ SetReplacer(SetEvictable(Replacer, frame_id, set_evictable))
          /\ bpm_last' = [op |-> "SetEvictable", ret |-> "ok", frame_id |-> frame_id]
  /\ ReplacerOnly

\* Remove that takes a non-evictable frame out as well
CallRemove_NoThrow(frame_id) ==
  /\ bpm_status = "ok"
  /\ SetReplacer(ReplacerRemove(Replacer, frame_id))
  /\ bpm_last' = [op |-> "Remove", ret |-> "ok", frame_id |-> frame_id]
  /\ ReplacerOnly

CallRemove(frame_id) ==
  /\ bpm_status = "ok"
  /\ IF frame_id \in DOMAIN node_store_ /\ ~node_store_[frame_id].is_evictable
     THEN /\ bpm_last' = [op |-> "Remove", ret |-> "throw", frame_id |-> frame_id]
          /\ UNCHANGED <<node_store_, curr_size_, current_timestamp_>>
     ELSE /\ SetReplacer(ReplacerRemove(Replacer, frame_id))
          /\ bpm_last' = [op |-> "Remove", ret |-> "ok", frame_id |-> frame_id]
  /\ ReplacerOnly

CallEvict ==
  /\ bpm_status = "ok"
  /\ curr_size_ > -MaxWrap
  /\ \E o \in EvictScan(Replacer) :
       /\ SetReplacer(o.R)
       /\ bpm_last' = [op |-> "Evict", ret |-> IF o.ret THEN "true" ELSE "false",
                       frame_id |-> o.frame_id]
  /\ ReplacerOnly

LRUNext ==
  \/ \E frame_id \in LruFrameIds : CallRecordAccess(frame_id)
  \/ \E frame_id \in LruFrameIds, set_evictable \in BOOLEAN :
       CallSetEvictable(frame_id, set_evictable)
  \/ \E frame_id \in LruFrameIds : CallRemove(frame_id)
  \/ CallEvict

SpecLRU == BPInit /\ [][LRUNext]_vars

\* Callers that hold their pages through guards: each takes a Page pointer
\* from NewPage or FetchPage, latches the page for a ReadPageGuard or
\* WritePageGuard, builds the guard, moves it, drops it; or asks a wrapper of
\* the pool for a guard.
GuardKinds == {"basic", "read", "write"}

GuardNext ==
  \/ \E h \in Owners, kind \in GuardKinds : NewPageFor(h, kind)
  \/ \E h \in Owners, kind \in GuardKinds, page_id \in 0..(next_page_id_ - 1) :
       FetchPageFor(h, kind, page_id)
  \/ \E h \in Owners : BasicPageGuard(h)
  \/ \E h \in Owners : ReadPageGuard(h)
  \/ \E h \in Owners : WritePageGuard(h)
  \/ \E h \in Owners : BasicDrop(h)
  \/ \E h \in Owners : ReadDrop(h)
  \/ \E h \in Owners : WriteDrop(h)
  \/ \E that, this \in Owners : MoveConstruct(that, this)
  \/ \E that, this \in Owners : MoveAssign(that, this)
  \/ \E that, this \in Owners : MoveAssignUnlatch(that, this)
  \/ \E that, this \in Owners : MoveAssignGuard(that, this)
  \/ \E this, rg \in Owners, kind \in LatchKinds : UpgradeBegin(this, rg, kind)
  \/ \E this, rg \in Owners : UpgradeLatch(this, rg)
  \/ \E h \in Owners, page_id \in 0..(next_page_id_ - 1) : FetchPageBasic(h, page_id)
  \/ \E h \in Owners, page_id \in 0..(next_page_id_ - 1) : FetchPageRead(h, page_id)
  \/ \E h \in Owners, page_id \in 0..(next_page_id_ - 1) : FetchPageWrite(h, page_id)
  \/ \E h \in Owners : NewPageGuarded(h)

SpecGuard == BPInit /\ [][GuardNext]_vars

\* Threads that latch: each takes a Page pointer, latches the page, holds it
\* through a ReadPageGuard or WritePageGuard and drops the guard, while other
\* callers take new pages from the pool directly. Every thread that can take
\* its next step takes it in the end: a thread that waits for a latch is
\* woken when the latch is free, and a guard is dropped when its scope ends.
LatchNext ==
  \/ \E h \in Owners, kind \in LatchKinds : NewPageFor(h, kind)
  \/ \E h \in Owners, kind \in LatchKinds, page_id \in 0..(next_page_id_ - 1) :
       FetchPageFor(h, kind, page_id)
  \/ \E h \in Owners : ReadPageGuard(h)
  \/ \E h \in Owners : WritePageGuard(h)
  \/ \E h \in Owners : ReadDrop(h)
  \/ \E h \in Owners : WriteDrop(h)
  \/ \E h \in Owners : BasicDrop(h)
  \/ NewPage /\ PoolOnly

\* the next step of the thread of holder h
OwnerStep(h) ==
  ReadPageGuard(h) \/ WritePageGuard(h) \/ ReadDrop(h) \/ WriteDrop(h) \/ BasicDrop(h)

LiveGuard ==
  BPInit /\ [][LatchNext]_vars /\ \A h \in Owners : WF_vars(OwnerStep(h))

\* ------------------------------------------------ properties, hash table
\* every call so far was an Insert of a new key that returned true
OnlyUniqueInserts == Cardinality(Present) = calls

\* the bucket pages that hold key among their live entries
Holders(key) == {b \in DOMAIN bkts : BucketHas(bkts[b], key)}

\* key resolves to a full bucket whose local depth is the global depth, at
\* directory_max_depth
AtCapacity(key) ==
  LET hash == Hash(key)
      direc_page_id == HeaderHashToPageId(hash)
  IN /\ direc_page_id # INVALID_PAGE_ID
     /\ LET D == dirs[direc_page_id]
            bucket_idx == HashToBucketIndex(D, hash)
        IN /\ GetBucketPageId(D, bucket_idx) # INVALID_PAGE_ID
           /\ IsFull(bkts[GetBucketPageId(D, bucket_idx)])
           /\ GetLocalDepth(D, bucket_idx) = GetGlobalDepth(D)
           /\ GetGlobalDepth(D) = cfg.dmd

\* the present keys whose hash agrees with key's on the low directory_max_depth bits
Class(key) ==
  {k \in Present : Hash(k) % Pow2(cfg.dmd) = Hash(key) % Pow2(cfg.dmd)}

C3_CapacityFailure ==
  \A key \in cfg.keys :
    /\ AtCapacity(key)
         => \A value \in Values, avail \in 0..MaxAvail : ~InsertIn(Tbl, key, value, avail).ret
    /\ (key \notin Present /\ Cardinality(Class(key)) < cfg.bmax)
         => InsertIn(Tbl, key, 1, MaxAvail).ret
    /\ Cardinality(Present) = Pow2(cfg.dmd) * cfg.bmax
         => ~InsertIn(Tbl, key, 1, MaxAvail).ret

C3_Witness ==
  /\ cfg = CapConfig
  /\ Cardinality(Present) = 8
  /\ calls = 9
  /\ last.op = "Insert" /\ last.ret = "false" /\ last.why = "maxdepth"

C5_DuplicateRejected ==
  [][\A key \in Keys, value \in Values, avail \in 0..MaxAvail :
       (GetValueOf(key) # <<>> /\ Insert(key, value, avail))
         => (last'.ret = "false" /\ GetValueOf(key)' = GetValueOf(key))]_vars

\* C6: Remove returns true iff the key was present; after it the key is absent
\* and every other key has the GetValue result it had before.
C6_RemoveSemantics ==
  [][\A key \in Keys :
       Remove(key)
         => /\ status' = "ok"
            /\ last'.ret = Bool(GetValueOf(key) # <<>>)
            /\ GetValueOf(key)' = <<>>
            /\ \A k \in cfg.keys \ {key} : GetValueOf(k)' = GetValueOf(k)]_vars

\* C7: once every key that was inserted has been removed again, GetValue
\* returns none for every key and every directory's global depth is 0.
C7_MergeToDepthZero ==
  (calls > 0 /\ last.op = "Remove" /\ last.ret = "true" /\ Present = {})
    => /\ \A k \in cfg.keys : GetValueOf(k) = <<>>
       /\ \A d \in DOMAIN dirs : GetGlobalDepth(dirs[d]) = 0

\* ------------------------------------------------ properties, buffer pool
\* the free list is empty and every frame holds a page with pin count > 0
AllPinned ==
  /\ free_list_ = <<>>
  /\ \A f \in Frames : pages_[f].page_id # INVALID_PAGE_ID /\ pages_[f].pin_count > 0

\* each frame's page id, pin count and contents
FrameState ==
  [f \in Frames |-> [page_id |-> pages_[f].page_id, pin_count |-> pages_[f].pin_count,
                     data |-> pages_[f].data]]

\* C8: with the free list empty and every frame pinned, NewPage and FetchPage
\* of a page that is not resident return failure and leave the page table and
\* every frame's page id, pin count and contents as they were.
C8_PoolExhaustion ==
  [][AllPinned
       => /\ NewPage
               => /\ bpm_status' = "ok" /\ bpm_last'.ret = "fail"
                  /\ page_table_' = page_table_ /\ FrameState' = FrameState
          /\ \A page_id \in PageIds \ DOMAIN page_table_ :
               FetchPage(page_id)
                 => /\ bpm_status' = "ok" /\ bpm_last'.ret = "fail"
                    /\ page_table_' = page_table_ /\ FrameState' = FrameState]_vars

\* C9: a frame that holds a resident page is marked evictable in the replacer
\* iff its pin count is 0.
C9_PinEvictDuality ==
  \A f \in Frames :
    pages_[f].page_id # INVALID_PAGE_ID
      => ((f \in DOMAIN node_store_ /\ node_store_[f].is_evictable) <=> pages_[f].pin_count = 0)

C9_Witness ==
  /\ bpm_last.op = "UnpinPage" /\ bpm_last.ret = "ok"
  /\ \E f, g \in Frames :
       /\ pages_[f].page_id # INVALID_PAGE_ID /\ pages_[f].pin_count = 0
       /\ node_store_[f].is_evictable
       /\ pages_[g].pin_count > 0 /\ ~node_store_[g].is_evictable

\* C10: a NewPage or FetchPage call leaves every page whose pin count is > 0
\* mapped to the frame it was in, with that frame still holding the page and
\* its contents.
C10_PinnedNeverEvicted ==
  [][bpm_last'.op \in {"NewPage", "FetchPage"}
       => \A p \in DOMAIN page_table_ :
            pages_[page_table_[p]].pin_count > 0
              => /\ p \in DOMAIN page_table_'
                 /\ page_table_'[p] = page_table_[p]
                 /\ pages_'[page_table_[p]].page_id = p
                 /\ pages_'[page_table_[p]].data = pages_[page_table_[p]].data]_vars

\* C11: a page that is resident and dirty stays dirty across every call but
\* FlushPage and FlushAllPages as long as it stays resident; UnpinPage with
\* is_dirty = false in particular leaves the flag true.
C11_DirtySticky ==
  [][\A p \in DOMAIN page_table_ :
       (/\ pages_[page_table_[p]].is_dirty
        /\ p \in DOMAIN page_table_'
        /\ bpm_last'.op \notin {"FlushPage", "FlushAllPages"})
         => pages_'[page_table_'[p]].is_dirty]_vars

\* C12: FetchPage of a page that is not resident, called while a frame is free
\* or unpinned, returns a frame holding the contents the page had when it was
\* last unpinned with is_dirty = true, if no holder of a pin has written the
\* page since.
C12_ContentsSurviveEviction ==
  [][\A p \in PageIds :
       (/\ p \notin DOMAIN page_table_
        /\ committed[p] # NoData
        /\ ~AllPinned
        /\ FetchPage(p)
        /\ bpm_last'.ret = "ok")
         => pages_'[page_table_'[p]].data = committed[p]]_vars

\* C13: when NewPage or FetchPage takes a frame whose page is dirty, the call
\* writes that page to disk: after it the disk holds, under the old page's id,
\* the bytes the frame had before it was reset or read into.
C13_FlushBeforeReuse ==
  [][\A f \in Frames :
       (/\ bpm_last'.op \in {"NewPage", "FetchPage"}
        /\ pages_[f].is_dirty
        /\ pages_'[f].page_id # pages_[f].page_id)
         => /\ disk'[pages_[f].page_id] = pages_[f].data
            /\ pages_[f].page_id \in bpm_last'.wrote]_vars

C13_Witness ==
  /\ bpm_last.op \in {"NewPage", "FetchPage"} /\ bpm_last.ret = "ok"
  /\ \E p \in bpm_last.wrote : p \notin DOMAIN page_table_ /\ disk[p] # 0

\* C14: UnpinPage of a page that is not resident or has pin count 0 returns
\* false and leaves the pool as it was; otherwise it returns true and lowers
\* that page's pin count, and no other, by exactly 1. No pin count is ever
\* below 0.
C14_UnpinPage ==
  [][/\ \A p \in PageIds, d \in BOOLEAN :
          UnpinPage(p, d)
            => IF p \notin DOMAIN page_table_ \/ pages_[page_table_[p]].pin_count = 0
               THEN /\ bpm_last'.ret = "fail"
                    /\ UNCHANGED <<pages_, free_list_, page_table_, next_page_id_, node_store_,
                                   curr_size_, current_timestamp_, disk>>
               ELSE /\ bpm_last'.ret = "ok"
                    /\ page_table_' = page_table_
                    /\ \A f \in Frames :
                         pages_'[f].pin_count =
                           IF f = page_table_[p] THEN pages_[f].pin_count - 1
                           ELSE pages_[f].pin_count
     /\ \A f \in Frames : pages_'[f].pin_count >= 0]_vars

C14_Witness ==
  /\ bpm_last.op = "UnpinPage" /\ bpm_last.ret = "fail"
  /\ \E p \in DOMAIN page_table_ : pages_[page_table_[p]].pin_count = 0
  /\ \E p \in DOMAIN page_table_ : pages_[page_table_[p]].pin_count > 0

\* C15: FlushPage of a resident page writes the frame's bytes to disk under
\* the page's id, dirty or not, clears the dirty flag, leaves pin counts and
\* the replacer as they were and returns true; FlushPage of a page that is not
\* resident returns false and writes nothing. FlushAllPages writes every
\* resident page and clears its dirty flag.
C15_Flush ==
  [][/\ \A p \in PageIds :
          FlushPage(p)
            => IF p \in DOMAIN page_table_
               THEN /\ bpm_last'.ret = "ok"
                    /\ p \in bpm_last'.wrote
                    /\ disk'[p] = pages_[page_table_[p]].data
                    /\ ~pages_'[page_table_[p]].is_dirty
                    /\ \A f \in Frames : /\ pages_'[f].pin_count = pages_[f].pin_count
                                         /\ pages_'[f].data = pages_[f].data
                    /\ UNCHANGED <<page_table_, node_store_, curr_size_>>
               ELSE /\ bpm_last'.ret = "fail"
                    /\ bpm_last'.wrote = {}
                    /\ UNCHANGED <<pages_, disk>>
     /\ FlushAllPages
          => /\ \A p \in DOMAIN page_table_ :
                  /\ disk'[p] = pages_[page_table_[p]].data
                  /\ ~pages_'[page_table_[p]].is_dirty
             /\ \A p \in PageIds \ DOMAIN page_table_ : disk'[p] = disk[p]
             /\ \A f \in Frames : pages_'[f].pin_count = pages_[f].pin_count
             /\ UNCHANGED <<page_table_, node_store_, curr_size_>>]_vars

C15_Witness ==
  /\ bpm_last.op = "FlushPage" /\ bpm_last.ret = "ok"
  /\ \E p \in bpm_last.wrote :
       /\ p \in DOMAIN page_table_
       /\ pages_[page_table_[p]].pin_count > 0
       /\ committed[p] = NoData
       /\ disk[p] = pages_[page_table_[p]].data /\ disk[p] # 0

\* C16: DeletePage of a resident page with pin count > 0 returns false and
\* leaves the pool as it was; DeletePage of a resident page with pin count 0
\* removes the page from the page table and its frame from the replacer,
\* appends the frame to the free list, resets the frame and returns true.
C16_DeletePage ==
  [][\A p \in DOMAIN page_table_ :
       DeletePage(p)
         => LET f == page_table_[p]
            IN IF pages_[f].pin_count > 0
               THEN /\ bpm_last'.ret = "fail"
                    /\ UNCHANGED <<pages_, free_list_, page_table_, next_page_id_, node_store_,
                                   curr_size_, current_timestamp_, disk>>
               ELSE /\ bpm_last'.ret = "ok"
                    /\ p \notin DOMAIN page_table_'
                    /\ f \notin DOMAIN node_store_'
                    /\ free_list_' = Append(free_list_, f)
                    /\ pages_'[f] = PageInit]_vars

C16_Witness ==
  /\ bpm_last.op = "DeletePage" /\ bpm_last.ret = "ok"
  /\ \E f \in Frames :
       /\ Len(free_list_) > 0 /\ free_list_[Len(free_list_)] = f
       /\ pages_[f] = PageInit /\ f \notin DOMAIN node_store_
  /\ page_table_ # <<>>

\* ------------------------------------------------ properties, page guards
\* the pin count of every frame
PinCounts == [f \in Frames |-> pages_[f].pin_count]

\* PinCounts with the count of frame f lowered by 1
OneLower(f) == [PinCounts EXCEPT ![f] = @ - 1]

\* C17: FetchPageBasic, FetchPageRead and FetchPageWrite of a resident page
\* return a guard on the page's frame and raise the page's pin count by 1;
\* NewPageGuarded, called while a frame is free, returns a guard on the frame
\* of a new page whose pin count is 1.
C17_WrappersOwnPin ==
  [][\A h \in Owners :
       /\ \A p \in DOMAIN page_table_ :
            (FetchPageBasic(h, p) \/ FetchPageRead(h, p) \/ FetchPageWrite(h, p))
              => /\ guards'[h].page_ = page_table_[p]
                 /\ PinCounts' = [PinCounts EXCEPT ![page_table_[p]] = @ + 1]
       /\ (free_list_ # <<>> /\ NewPageGuarded(h))
            => /\ guards'[h].page_ = Head(free_list_)
               /\ pages_'[Head(free_list_)].pin_count = 1]_vars

\* C18: Drop of a BasicPageGuard that holds a page lowers that page's pin
\* count, and no other, by exactly 1 and leaves the guard empty; Drop of an
\* empty guard changes no pin count; a move construction changes no pin
\* count, gives the destination the source's page and leaves the source empty.
C18_GuardExclusivity ==
  [][\A h \in Owners :
       /\ (guards[h].st = "live" /\ guards[h].kind = "basic" /\ BasicDrop(h))
            => IF guards[h].page_ # nullptr
               THEN PinCounts' = OneLower(guards[h].page_) /\ guards'[h].page_ = nullptr
               ELSE PinCounts' = PinCounts /\ guards'[h].page_ = nullptr
       /\ \A this \in Owners :
            MoveConstruct(h, this)
              => /\ PinCounts' = PinCounts
                 /\ guards'[this].page_ = guards[h].page_
                 /\ guards'[h].page_ = nullptr]_vars

\* C19: Drop of a ReadPageGuard or WritePageGuard that holds a page first
\* releases the guard's latch, with every pin count as it was, and then lowers
\* the page's pin count by exactly 1 with the latch as it is; the released
\* write latch, and the read latch released by the last reader, leave the page
\* unlatched; Drop of an empty guard changes neither latch nor pin count.
C19_LatchThenUnpin ==
  [][\A h \in Owners :
       /\ (ReadDrop(h) \/ WriteDrop(h))
            => IF guards[h].page_ = nullptr
               THEN UNCHANGED <<latch, pages_, guards>>
               ELSE /\ PinCounts' = PinCounts
                    /\ guards'[h].st = "unlatched"
                    /\ latch'[guards[h].page_] =
                         IF guards[h].kind = "write" THEN Unlatched
                         ELSE [latch[guards[h].page_] EXCEPT !.r = @ - 1]
                    /\ latch[guards[h].page_].w = (guards[h].kind = "write")
                    /\ guards[h].kind = "read" => latch[guards[h].page_].r > 0
       /\ (guards[h].st = "unlatched" /\ BasicDrop(h))
            => /\ latch' = latch
               /\ PinCounts' = OneLower(guards[h].page_)
               /\ guards'[h] = EmptyGuard(guards[h].kind)]_vars

\* holder h has a live WritePageGuard on frame f
WriteGuardOn(h, f) ==
  guards[h].st = "live" /\ guards[h].kind = "write" /\ guards[h].page_ = f

\* holder h waits for the latch of a frame whose writer has just dropped its
\* WritePageGuard: the latch is released and the writer's pin not yet
Released(h) ==
  /\ guards[h].st = "pinned" /\ guards[h].kind \in LatchKinds
  /\ \E o \in Owners \ {h} :
       /\ guards[o].st = "unlatched" /\ guards[o].kind = "write"
       /\ guards[o].page_ = guards[h].page_

C21_UpgradeKeepsPin ==
  [][\A this \in Owners, rg \in Owners :
       /\ \A kind \in LatchKinds :
            (guards[this].page_ # nullptr /\ UpgradeBegin(this, rg, kind))
              => /\ UNCHANGED <<bpVars, latch>>
                 /\ guards'[this].page_ = guards[this].page_
       /\ UpgradeLatch(this, rg)
            => LET f == guards[this].page_
               IN /\ UNCHANGED bpVars
                  /\ guards'[rg].st = "live" /\ guards'[rg].page_ = f
                  /\ guards'[this].st = "live" /\ guards'[this].page_ = nullptr
                  /\ latch'[f] = IF guards[rg].kind = "write"
                                 THEN [w |-> TRUE, r |-> 0]
                                 ELSE [w |-> FALSE, r |-> latch[f].r + 1]
       /\ (guards[this].st = "live" /\ guards[this].page_ = nullptr /\ BasicDrop(this))
            => PinCounts' = PinCounts]_vars

\* an upgrade has returned a guard on a pinned page, and the original is empty
C21_Witness ==
  /\ g_last.op \in {"UpgradeRead", "UpgradeWrite"}
  /\ guards[g_last.g].page_ # nullptr
  /\ pages_[guards[g_last.g].page_].pin_count = 1
  /\ \E this \in Owners : guards[this].kind = "basic" /\ guards[this].st = "live"
                           /\ guards[this].page_ = nullptr

\* ------------------------------------------------ properties, replacer
\* the tracked frames whose evictable flag is set
Evictable == {f \in DOMAIN node_store_ : node_store_[f].is_evictable}

\* the K-th most recent access of a frame with K recorded accesses
KthRecent(f) == node_store_[f].history[Len(node_store_[f].history) - ReplacerK + 1]

\* C22: when some tracked frame is evictable, Evict returns true and takes out
\* this frame: if evictable frames with fewer than K recorded accesses exist,
\* the one of them whose first recorded access is earliest; otherwise the
\* evictable frame with the largest current_timestamp_ minus K-th most recent
\* access.
C22_VictimChoice ==
  [][(CallEvict /\ Evictable # {})
       => LET few == {f \in Evictable : Len(node_store_[f].history) < ReplacerK}
              v == bpm_last'.frame_id
          IN /\ bpm_last'.ret = "true"
             /\ IF few # {}
                THEN /\ v \in few
                     /\ \A g \in few : node_store_[v].history[1] <= node_store_[g].history[1]
                ELSE /\ v \in Evictable
                     /\ \A g \in Evictable :
                          current_timestamp_ - KthRecent(v) >= current_timestamp_ - KthRecent(g)
             /\ node_store_' = Drop(node_store_, v)]_vars

\* Evict has taken a frame out although an evictable frame with K accesses,
\* the first of them the oldest access of all, was there: the victim had
\* fewer than K accesses; and a second frame with fewer than K was passed over
C22_Witness ==
  /\ bpm_last.op = "Evict" /\ bpm_last.ret = "true"
  /\ \E g \in Evictable : Len(node_store_[g].history) = ReplacerK
                           /\ node_store_[g].history[1] = 0
  /\ \E g \in Evictable : Len(node_store_[g].history) < ReplacerK
                           /\ bpm_last.frame_id < g

\* C23: Evict returns true only with a frame that was tracked and evictable;
\* when no tracked frame is evictable it returns false and changes neither
\* curr_size_ nor node_store_.
C23_EvictOnlyEvictable ==
  [][CallEvict
       => IF Evictable = {}
          THEN bpm_last'.ret = "false" /\ UNCHANGED <<node_store_, curr_size_>>
          ELSE bpm_last'.ret = "true" /\ bpm_last'.frame_id \in Evictable]_vars

\* C24: curr_size_, which Size() returns, is the number of tracked frames
\* whose evictable flag is set, and so never below 0.
C24_SizeCountsEvictable == curr_size_ = Cardinality(Evictable)

\* C25: RecordAccess of a frame id outside 0..replacer_size_-1 throws and
\* leaves node_store_ and current_timestamp_ as they were; RecordAccess of a
\* frame id inside appends current_timestamp_ to the frame's history, keeps
\* the K most recent entries and adds 1 to current_timestamp_.
C25_RecordAccess ==
  [][\A frame_id \in LruFrameIds :
       CallRecordAccess(frame_id)
         => IF frame_id \notin 0..(ReplacerSize - 1)
            THEN /\ bpm_last'.ret = "throw"
                 /\ UNCHANGED <<node_store_, current_timestamp_>>
            ELSE LET old == IF frame_id \in DOMAIN node_store_
                            THEN node_store_[frame_id].history ELSE <<>>
                     all == Append(old, current_timestamp_)
                     new == node_store_'[frame_id].history
                 IN /\ bpm_last'.ret = "ok"
                    /\ Len(new) = IF Len(all) > ReplacerK THEN ReplacerK ELSE Len(all)
                    /\ \A i \in 1..Len(new) : new[i] = all[Len(all) - Len(new) + i]
                    /\ current_timestamp_' = current_timestamp_ + 1
                    /\ \A g \in DOMAIN node_store_ \ {frame_id} :
                         node_store_'[g] = node_store_[g]]_vars

\* C26: Remove of a tracked frame that is not evictable throws and leaves
\* node_store_ and curr_size_ as they were; Remove of a tracked evictable
\* frame takes the frame out of node_store_ and lowers curr_size_ by 1.
C26_Remove ==
  [][\A frame_id \in DOMAIN node_store_ :
       CallRemove(frame_id)
         => IF ~node_store_[frame_id].is_evictable
            THEN /\ bpm_last'.ret = "throw"
                 /\ UNCHANGED <<node_store_, curr_size_>>
            ELSE /\ bpm_last'.ret = "ok"
                 /\ node_store_' = Drop(node_store_, frame_id)
                 /\ curr_size_' = curr_size_ - 1]_vars

\* Remove has thrown for a frame that is tracked with a history of K accesses
\* while another frame is evictable
C26_Witness ==
  /\ bpm_last.op = "Remove" /\ bpm_last.ret = "throw"
  /\ bpm_last.frame_id \in DOMAIN node_store_
  /\ Len(node_store_[bpm_last.frame_id].history) = ReplacerK
  /\ curr_size_ = 1 /\ Cardinality(Evictable) = 1

\* ------------------------------------- properties, hash table: the depths
\* what a Remove(key) call that finds its key starts from: the directory page
\* id d, the key's slot idx and the bucket page id b
RemoveTarget(key) ==
  LET d == HeaderHashToPageId(Hash(key))
      idx == HashToBucketIndex(dirs[d], Hash(key))
  IN [d |-> d, idx |-> idx, b |-> GetBucketPageId(dirs[d], idx)]

\* Remove(key) finds the key, and the key is the last entry of its bucket
EmptiesBucket(key) ==
  /\ GetValueOf(key) # <<>>
  /\ bkts[RemoveTarget(key).b].size = 1

\* C29: a Remove that empties the sole bucket of a directory at global depth
\* 0 returns true and leaves the directory and the set of bucket pages as
\* they are; a Remove that empties a bucket of local depth > 0 at nonzero
\* global depth deletes the bucket page and points the key's slot to the page
\* of the split image.
C29_MergeLoopGuard ==
  [][\A key \in Keys :
       (EmptiesBucket(key) /\ Remove(key))
         => LET x == RemoveTarget(key)
                D == dirs[x.d]
                local_depth == GetLocalDepth(D, x.idx)
            IN IF GetGlobalDepth(D) = 0
               THEN /\ status' = "ok" /\ last'.ret = "true"
                    /\ dirs' = dirs
                    /\ DOMAIN bkts' = DOMAIN bkts
               ELSE local_depth > 0
                      => /\ status' = "ok" /\ last'.ret = "true"
                         /\ x.b \notin DOMAIN bkts'
                         /\ \E split_index \in 0..(Size(D) - 1) :
                              /\ split_index # x.idx
                              /\ BitAnd(split_index, Pow2(local_depth - 1) - 1)
                                   = BitAnd(x.idx, Pow2(local_depth - 1) - 1)
                              /\ GetBucketPageId(dirs'[x.d], x.idx)
                                   = GetBucketPageId(D, split_index)]_vars

\* C30: in every directory 0 <= global depth <= directory_max_depth_, and
\* every slot below 2^global depth has 0 <= local depth <= global depth.
C30_DepthInvariant ==
  \A d \in DOMAIN dirs :
    /\ GetGlobalDepth(dirs[d]) >= 0
    /\ GetGlobalDepth(dirs[d]) <= cfg.dmd
    /\ \A i \in 0..(Size(dirs[d]) - 1) :
         GetLocalDepth(dirs[d], i) >= 0 /\ GetLocalDepth(dirs[d], i) <= GetGlobalDepth(dirs[d])

\* ------------------------------------------- properties, the pool's lock
\* C28: a thread that waits for the completion of a disk request does not hold
\* the pool's lock, unless the request is the write-back of the dirty page of
\* the frame it took: while a thread waits for the read of the page it
\* fetches, or for a flush, the lock is free for the other threads.
C28_NoLockAcrossIO ==
  \A t \in Threads :
    pc[t].st = "wait" /\ Head(pc[t].waits) # "victim_write" => latch_ # t

\* ------------------------------------------- properties, threads on the table
\* the pages of the table that a sequential Insert or Remove with the
\* arguments of thread t's call can leave, run on the table as it is now
Sequential(t) ==
  IF pc[t].op = "Insert"
  THEN {InsertIn(Tbl, pc[t].key, pc[t].value, avail).t : avail \in 0..MaxAvail}
  ELSE LET r == RemoveIn(Tbl, pc[t].key)
       IN IF r.ub
          THEN {r.t} \cup {MergeAtDepthZero(r.t, pc[t].key, g) : g \in GarbagePageIds}
          ELSE {r.t}

Bit(n, b) == (n \div Pow2(b)) % 2

C34_MoveAssignReleases ==
  [][\A that \in Owners, this \in Owners :
       /\ (guards[this].page_ # nullptr /\ MoveAssign(that, this))
            => /\ PinCounts' = OneLower(guards[this].page_)
               /\ guards'[this].page_ = guards[that].page_
               /\ guards'[that].page_ = nullptr
       /\ MoveAssignUnlatch(that, this)
            => /\ PinCounts' = PinCounts
               /\ latch'[guards[this].page_] =
                    IF guards[this].kind = "write" THEN Unlatched
                    ELSE [latch[guards[this].page_] EXCEPT !.r = @ - 1]
       /\ MoveAssignGuard(that, this)
            => /\ PinCounts' = OneLower(guards[this].page_)
               /\ latch' = latch
               /\ guards'[this].page_ = guards[that].page_
               /\ guards'[this].st = "live"
               /\ guards'[that].page_ = nullptr]_vars

\* ------------------------------------------- properties, well-formed directories
\* the slots of directory D that point to bucket page b
SlotsOf(D, b) == {i \in 0..(Size(D) - 1) : GetBucketPageId(D, i) = b}

\* C35: after any sequence of Insert and Remove calls, in every directory the
\* slots that point to one bucket page have one local depth d, there are
\* exactly 2^(global depth - d) of them, they agree on their low d bits, and
\* the hash of every key stored in the bucket has those low d bits.
C35_DirectoryWellFormed ==
  \A dp \in DOMAIN dirs :
    LET D == dirs[dp]
    IN \A i \in 0..(Size(D) - 1) :
         LET b == GetBucketPageId(D, i)
             d == GetLocalDepth(D, i)
         IN b # INVALID_PAGE_ID =>
              /\ d <= GetGlobalDepth(D)
              /\ Cardinality(SlotsOf(D, b)) = Pow2(GetGlobalDepth(D) - d)
              /\ \A j \in SlotsOf(D, b) :
                   /\ GetLocalDepth(D, j) = d
                   /\ BitAnd(j, Pow2(d) - 1) = BitAnd(i, Pow2(d) - 1)
              /\ b \in DOMAIN bkts
              /\ \A n \in 1..bkts[b].size :
                   BitAnd(Hash(bkts[b].arr[n].k), Pow2(d) - 1) = BitAnd(i, Pow2(d) - 1)

\* ------------------------------------------- properties, frame bookkeeping
\* how often frame f is in the free list
TimesFree(f) == Cardinality({i \in 1..Len(free_list_) : free_list_[i] = f})

\* the pages the page table maps to frame f
PagesIn(f) == {p \in DOMAIN page_table_ : page_table_[p] = f}

C39_SplitLoopBound ==
  status = "ok" =>
    \A key \in cfg.keys, avail \in 0..MaxAvail :
      LET hash == Hash(key)
          d == HeaderHashToPageId(hash)
      IN (d # INVALID_PAGE_ID /\ HashToPageId(dirs[d], hash) # INVALID_PAGE_ID)
         => \E r \in {InsertIn(Tbl, key, 1, avail)} :
              /\ r.splits <= cfg.dmd
              /\ GetLocalDepth(r.t.dirs[d], HashToBucketIndex(r.t.dirs[d], hash))
                   = GetLocalDepth(dirs[d], HashToBucketIndex(dirs[d], hash)) + r.splits

\* an Insert has split directory_max_depth times, from local depth 0 to the
\* deepest directory, and has inserted its key
C39_Witness ==
  /\ last.op = "Insert" /\ last.ret = "true"
  /\ last.splits = cfg.dmd /\ cfg.dmd = 2
  /\ \E d \in DOMAIN dirs : GetGlobalDepth(dirs[d]) = cfg.dmd

\* thread t is in Put or Remove between write_lock_.lock() and
\* write_lock_.unlock()
Writing(t) ==
  /\ pc[t].st \in {"locked", "copy", "copied", "computed", "assign", "assigning", "assigned"}
  /\ pc[t].op # "Get"

\* C40: at most one thread is in Put or Remove between taking and releasing
\* the write lock; from the moment a writer has copied the root until it has
\* installed its new trie the root is the trie it copied, and the trie it
\* installs is Put or Remove applied to that root, so no write of another
\* thread is lost; and no thread, Get included, ever copies the root while an
\* assignment to it is under way.
C40_OneWriterNoLostUpdate ==
  /\ Cardinality({t \in Threads : Writing(t)}) <= 1
  /\ \A t \in Threads :
       /\ pc[t].st = "copied" => ~pc[t].partial
       /\ (Writing(t) /\ pc[t].st \in {"copied", "computed", "assign", "assigning"})
            => pc[t].old_trie = root_
       /\ (Writing(t) /\ pc[t].st \in {"computed", "assign", "assigning"})
            => pc[t].new_trie = IF pc[t].op = "Put"
                                THEN TriePut(root_, pc[t].key, pc[t].value)
                                ELSE TrieRemove(root_, pc[t].key)

\* a Put has installed its trie, which holds its key and the key of an
\* earlier Put, while another thread's Get still holds the trie it copied
\* before that write
C40_Witness ==
  \E t \in Threads, u \in Threads :
    /\ pc[t].st = "assigned" /\ pc[t].op = "Put"
    /\ TrieGet(root_, pc[t].key) = pc[t].value
    /\ \E key \in StoreKeys \ {pc[t].key} : TrieGet(root_, key) # nullptr
    /\ pc[u].st = "copied" /\ pc[u].op = "Get"
    /\ pc[u].old_trie # root_
    /\ TrieGet(pc[u].old_trie, pc[t].key) # pc[t].value

====
